---- MODULE Spec2Model ----
(***************************************************************************)
(* Encounter state machine of d-system3: the Concentration Tracker         *)
(* (systems/concentration_system.py), the Condition Lifecycle Registry     *)
(* (systems/condition_system.py), the Action-Economy Tracker               *)
(* (systems/action_economy.py, systems/action_execution_system.py), the    *)
(* Initiative / Turn Sequencer (systems/initiative_system.py) and the      *)
(* Encounter Orchestrator (systems/combat_manager.py).                     *)
(*                                                                         *)
(* Python's None is modelled by the empty sequence for optional arguments  *)
(* (<<>> = not given, <<v>> = given) and by the sentinels below in stored  *)
(* fields.  time.time() is the variable now, which only Tick advances:     *)
(* every handler is synchronous and reads one instant.                     *)
(***************************************************************************)
EXTENDS Integers, Sequences, FiniteSets, TLC

\* ------------------------------------------------------------------ bounds
MaxTime == 2
MaxRound == 3
MaxUses == 2

\* ---------------------------------------------------------------- fixtures
Creatures == {"Archer", "Barbarian", "Cleric"}

\* Python string order of the fixture names (str.__lt__).
NameOrd(n) == CASE n = "Archer" -> 1 [] n = "Barbarian" -> 2 [] OTHER -> 3

\* get_ability_modifier(stats['dex']) and (stats['con']) of the fixtures.
DexMod == [c \in Creatures |-> CASE c = "Archer" -> 2 [] c = "Barbarian" -> 2 [] OTHER -> 0]
ConMod == [c \in Creatures |-> CASE c = "Archer" -> 0 [] c = "Barbarian" -> 3 [] OTHER -> 1]
Speed == [c \in Creatures |-> 2]
HP == [c \in Creatures |-> 2]

None == "None"
NoDC == -1
Inf == -1
NoEffect == [effect_name |-> None, duration_seconds |-> 0, spell_level |-> 0,
             start_time |-> 0, max_end_time |-> 0]
NoCondition == [duration_type |-> None, duration_value |-> 0, save_dc |-> NoDC,
                save_ability |-> None, source_name |-> None,
                applied_time |-> 0, applied_round |-> 0]

\* The instants time.time() takes in the model: seconds, one minute, one hour.
Instants == (0..MaxTime) \cup {60, 3600}
\* roll_d20() returns a face in 1..20; the model draws from these faces.
D20 == {1, 10, 13, 20}

ConditionNames == {"incapacitated", "prone", "stunned", "unconscious", "blinded",
                   "paralyzed", "grappled"}
DurationType == {"rounds", "minutes", "hours", "save_ends", "permanent", "until_dispelled"}

VARIABLES
  is_alive,              \* Creature.is_alive
  current_hp,            \* Creature.current_hp
  conditions,            \* Creature.conditions (the legacy set mirror)
  creature_conditions,   \* condition_system._creature_conditions
  current_combat_round,  \* condition_system._current_combat_round
  now,                   \* time.time()
  active_concentrations, \* ConcentrationSystem._active_concentrations
  creature_economies,    \* ActionEconomyManager._creature_economies
  movement_for_turn,     \* Creature.movement_for_turn
  readied_action,        \* Creature.readied_action
  turn_order,            \* InitiativeTracker.turn_order
  current_turn_index,    \* InitiativeTracker.current_turn_index (0-based)
  round_number,          \* InitiativeTracker.round_number
  combat_active,         \* InitiativeTracker.combat_active
  combat_state,          \* CombatManager.combat_state (teams, or NoState)
  op,                    \* the last call: its name, arguments and result
  hist                   \* history of the calls since the last reset_turn

condVars == <<conditions, creature_conditions, current_combat_round>>
concVars == <<active_concentrations>>
econVars == <<creature_economies, movement_for_turn, readied_action>>
turnVars == <<turn_order, current_turn_index, round_number, combat_active, combat_state>>
bodyVars == <<is_alive, current_hp>>
vars == <<is_alive, current_hp, conditions, creature_conditions, current_combat_round,
          now, active_concentrations, creature_economies, movement_for_turn,
          readied_action, turn_order, current_turn_index, round_number, combat_active, combat_state,
          op, hist>>

\* ------------------------------------------------------------ call records
\* The calls of one handler run inside one action; the part of the state they
\* thread through is a record st = [cc, conds, conc, log]: the registry, the
\* mirror, the concentrations and the cleanup-hook calls made so far.
St == [cc |-> creature_conditions, conds |-> conditions,
       conc |-> active_concentrations, log |-> <<>>]

\* op: the call's name, the participant it is about, a string and a number
\* argument, the boolean and numeric results, the participant returned (or None)
\* and the cleanup-hook calls <<caster, effect, reason>> it made.
OpRec(name, who, x, arg, ret, n, res, log) ==
  [name |-> name, who |-> who, x |-> x, arg |-> arg, ret |-> ret, n |-> n,
   res |-> res, log |-> log]

\* The record of a call that threw a d20: the die is kept with it.
WithRoll(rec, roll) ==
  [f \in DOMAIN rec \cup {"roll"} |-> IF f = "roll" THEN roll ELSE rec[f]]

\* ------------------------------------------------ Concentration Tracker
\* Creature defines no has_condition method, so hasattr(caster, 'has_condition')
\* is false for every participant built from creatures/base.py.
HasConditionMethod == FALSE

\* ConcentrationEffect.__init__
ConcentrationEffect(effect_name, duration_seconds, spell_level) ==
  [effect_name |-> effect_name,
   duration_seconds |-> duration_seconds,
   spell_level |-> IF spell_level = <<>> \/ spell_level = <<0>> THEN 1 ELSE spell_level[1],
   start_time |-> now,
   max_end_time |-> IF duration_seconds > 0 THEN now + duration_seconds ELSE Inf]

\* ConcentrationEffect.is_expired
is_expired(effect) ==
  IF effect.duration_seconds <= 0 THEN FALSE ELSE now >= effect.max_end_time

is_concentrating(conc, caster) == conc[caster] # NoEffect

can_concentrate(conds, caster) ==
  /\ ~(HasConditionMethod /\ "incapacitated" \in conds[caster])
  /\ is_alive[caster]
  /\ ~(HasConditionMethod /\ "unconscious" \in conds[caster])

\* The participants that define remove_temporary_ac_bonus and
\* remove_temporary_bonus, as methods that raise.  (Creature defines neither.)
HookRaises == {"Barbarian"}

\* _handle_concentration_end, lines 320-332: what the effect-specific cleanup
\* does for the caster.
HookOutcome(caster, effect) ==
  IF effect.effect_name \in {"Shield", "Bless", "Guidance"}
  THEN IF caster \in HookRaises THEN "raised" ELSE "no hook"
  ELSE "no cleanup"

\* Mutant: the cleanup has no try/except of its own.
handle_concentration_end_mutant(st, caster, effect, reason) ==
  [st |-> [st EXCEPT !.log = Append(@, <<caster, effect.effect_name, reason>>)],
   propagated |-> HookOutcome(caster, effect) = "raised"]

\* _handle_concentration_end: [st, propagated].  The cleanup changes nothing
\* in the tracker; a raise inside it is caught by its own except clause and
\* does not reach the caller.  The call is logged.
handle_concentration_end(st, caster, effect, reason) ==
  [st |-> [st EXCEPT !.log = Append(@, <<caster, effect.effect_name, reason>>)],
   propagated |-> FALSE]

\* break_concentration: [st, ret].  An exception reaching its except clause
\* makes it return False, after the effect was deleted.
break_concentration(st, caster, reason) ==
  IF st.conc[caster] = NoEffect
  THEN [st |-> st, ret |-> FALSE]
  ELSE LET h == handle_concentration_end(
                  [st EXCEPT !.conc[caster] = NoEffect], caster, st.conc[caster], reason)
       IN [st |-> h.st, ret |-> ~h.propagated]

start_concentration_mutant(st, caster, effect_name, duration_seconds, spell_level) ==
  IF ~can_concentrate(st.conds, caster)
  THEN [st |-> st, ret |-> FALSE]
  ELSE [st |-> [st EXCEPT !.conc[caster] =
                  ConcentrationEffect(effect_name, duration_seconds, spell_level)],
        ret |-> TRUE]

\* start_concentration: [st, ret]
start_concentration(st, caster, effect_name, duration_seconds, spell_level) ==
  IF ~can_concentrate(st.conds, caster)
  THEN [st |-> st, ret |-> FALSE]
  ELSE LET s1 == IF is_concentrating(st.conc, caster)
                 THEN break_concentration(st, caster, "New concentration effect").st
                 ELSE st
       IN [st |-> [s1 EXCEPT !.conc[caster] =
                     ConcentrationEffect(effect_name, duration_seconds, spell_level)],
           ret |-> TRUE]

\* perform_d20_test for a saving throw of a creature with no save proficiency,
\* no advantage and no disadvantage: total = d20 + ability modifier >= dc.
perform_d20_test(roll, modifier, dc) == roll + modifier >= dc

Min(a, b) == IF a < b THEN a ELSE b
Max(a, b) == IF a > b THEN a ELSE b

concentration_dc_mutant(damage_taken) == Min(30, Max(10, damage_taken))

\* check_concentration_save, line 163: dc = min(30, max(10, damage_taken // 2))
concentration_dc(damage_taken) == Min(30, Max(10, damage_taken \div 2))

\* Mutant: a failed save reports the loss but keeps the effect.
check_concentration_save_mutant(st, caster, damage_taken, roll) ==
  IF ~is_concentrating(st.conc, caster)
  THEN [st |-> st, ret |-> TRUE, dc |-> 0]
  ELSE LET dc == concentration_dc(damage_taken)
       IN [st |-> st, ret |-> perform_d20_test(roll, ConMod[caster], dc), dc |-> dc]

\* check_concentration_save: [st, ret, dc]
check_concentration_save(st, caster, damage_taken, roll) ==
  IF ~is_concentrating(st.conc, caster)
  THEN [st |-> st, ret |-> TRUE, dc |-> 0]
  ELSE LET dc == concentration_dc(damage_taken)
       IN IF perform_d20_test(roll, ConMod[caster], dc)
          THEN [st |-> st, ret |-> TRUE, dc |-> dc]
          ELSE [st |-> break_concentration(st, caster, "Failed Constitution save").st,
                ret |-> FALSE, dc |-> dc]

\* handle_condition_change
breaking_conditions == {"incapacitated", "unconscious", "dead", "stunned", "paralyzed"}

\* Mutant: a gained condition never touches the tracker.
handle_condition_change_mutant(st, creature, condition, added) == st

handle_condition_change(st, creature, condition, added) ==
  IF ~added THEN st
  ELSE IF condition \in breaking_conditions /\ is_concentrating(st.conc, creature)
       THEN break_concentration(st, creature, "Gained condition").st
       ELSE st

\* ------------------------------------------------ Condition Lifecycle Registry
\* str.lower() on the names the model passes in.
Lower(name) ==
  CASE name = "STUNNED" -> "stunned"
    [] name = "Unconscious" -> "unconscious"
    [] OTHER -> name

\* has_condition
has_condition(conds, target, condition_name) == Lower(condition_name) \in conds[target]

\* add_condition, lines 99-112: the per-condition defaults (an absent key is <<>>).
condition_defaults(condition_name) ==
  CASE condition_name \in {"stunned", "poisoned", "paralyzed", "blinded", "deafened"} ->
         [duration_type |-> <<"save_ends">>, duration_value |-> <<>>, save_ability |-> <<"con">>]
    [] condition_name \in {"frightened", "charmed"} ->
         [duration_type |-> <<"save_ends">>, duration_value |-> <<>>, save_ability |-> <<"wis">>]
    [] condition_name \in {"restrained", "grappled", "prone", "unconscious"} ->
         [duration_type |-> <<"permanent">>, duration_value |-> <<>>, save_ability |-> <<>>]
    [] condition_name = "incapacitated" ->
         [duration_type |-> <<"rounds">>, duration_value |-> <<1>>, save_ability |-> <<>>]
    [] OTHER ->
         [duration_type |-> <<>>, duration_value |-> <<>>, save_ability |-> <<>>]

\* add_condition called with the condition name only.
NoArgs == [duration_type |-> <<>>, duration_value |-> <<>>, save_dc |-> <<>>,
           save_ability |-> <<>>, source_name |-> <<>>]

Get(option, default) == IF option = <<>> THEN default ELSE option[1]

\* add_condition, lines 114-134: the stored instance.
condition_data(condition_name, a) ==
  LET defaults == condition_defaults(condition_name)
  IN [duration_type |-> Get(a.duration_type, Get(defaults.duration_type, "permanent")),
      duration_value |-> Get(a.duration_value, Get(defaults.duration_value, 0)),
      save_dc |-> Get(a.save_dc, NoDC),
      save_ability |-> Get(a.save_ability, Get(defaults.save_ability, None)),
      source_name |-> Get(a.source_name, "Unknown"),
      applied_time |-> now,
      applied_round |-> current_combat_round]

RECURSIVE add_condition(_, _, _, _)
RECURSIVE apply_condition_effects(_, _, _)

\* Mutant: unconscious implies incapacitated only.
apply_condition_effects_mutant(st, target, condition_name) ==
  CASE condition_name = "stunned" ->
         IF ~has_condition(st.conds, target, "incapacitated")
         THEN add_condition(st, target, "incapacitated", NoArgs) ELSE st
    [] condition_name = "unconscious" ->
         IF ~has_condition(st.conds, target, "incapacitated")
         THEN add_condition(st, target, "incapacitated", NoArgs) ELSE st
    [] OTHER -> st

\* Mutant: the implied conditions are added whether held or not.
apply_condition_effects_always(st, target, condition_name) ==
  CASE condition_name = "stunned" -> add_condition(st, target, "incapacitated", NoArgs)
    [] condition_name = "unconscious" ->
         add_condition(add_condition(st, target, "incapacitated", NoArgs),
                       target, "prone", NoArgs)
    [] OTHER -> st

\* _apply_condition_effects: the implied conditions go through add_condition.
\* (Creature has no concentrating_on attribute: the incapacitated branch is a no-op.)
apply_condition_effects(st, target, condition_name) ==
  CASE condition_name = "stunned" ->
         IF ~has_condition(st.conds, target, "incapacitated")
         THEN add_condition(st, target, "incapacitated", NoArgs) ELSE st
    [] condition_name = "unconscious" ->
         LET s1 == IF ~has_condition(st.conds, target, "incapacitated")
                   THEN add_condition(st, target, "incapacitated", NoArgs) ELSE st
         IN IF ~has_condition(s1.conds, target, "prone")
            THEN add_condition(s1, target, "prone", NoArgs) ELSE s1
    [] OTHER -> st

\* Mutant: a held condition keeps the instance it was first stored with.
add_condition_mutant(st, target, name, a) ==
  LET condition_name == Lower(name)
      s1 == [st EXCEPT !.cc[target][condition_name] =
                         IF @ = NoCondition THEN condition_data(condition_name, a) ELSE @,
                       !.conds[target] = @ \cup {condition_name}]
      s2 == apply_condition_effects(s1, target, condition_name)
  IN handle_condition_change(s2, target, condition_name, TRUE)

\* add_condition
add_condition(st, target, name, a) ==
  LET condition_name == Lower(name)
      s1 == [st EXCEPT !.cc[target][condition_name] = condition_data(condition_name, a),
                       !.conds[target] = @ \cup {condition_name}]
      s2 == apply_condition_effects(s1, target, condition_name)
  IN handle_condition_change(s2, target, condition_name, TRUE)

\* Mutant: removing a condition removes the conditions it implied as well.
remove_condition_mutant(st, target, name) ==
  LET condition_name == Lower(name)
      gone == CASE condition_name = "unconscious" -> {"unconscious", "incapacitated", "prone"}
                [] condition_name = "stunned" -> {"stunned", "incapacitated"}
                [] OTHER -> {condition_name}
  IN IF condition_name \in st.conds[target]
     THEN [st |-> [st EXCEPT !.cc[target] =
                               [n \in DOMAIN @ |-> IF n \in gone THEN NoCondition ELSE @[n]],
                             !.conds[target] = @ \ gone],
           ret |-> TRUE]
     ELSE [st |-> st, ret |-> FALSE]

\* remove_condition: [st, ret]
remove_condition(st, target, name) ==
  LET condition_name == Lower(name)
  IN IF condition_name \in st.conds[target]
     THEN [st |-> [st EXCEPT !.cc[target][condition_name] = NoCondition,
                             !.conds[target] = @ \ {condition_name}],
           ret |-> TRUE]
     ELSE [st |-> st, ret |-> FALSE]

\* Mutants: a SAVE_ENDS instance expires after a round; a ROUNDS instance
\* expires one round early.
is_condition_expired_save_ends(data, current_time, current_round) ==
  CASE data.duration_type \in {"permanent", "until_dispelled"} -> FALSE
    [] data.duration_type = "save_ends" -> current_round >= data.applied_round + 1
    [] data.duration_type = "rounds" ->
         current_round >= data.applied_round + data.duration_value
    [] data.duration_type = "minutes" ->
         current_time >= data.applied_time + data.duration_value * 60
    [] data.duration_type = "hours" ->
         current_time >= data.applied_time + data.duration_value * 3600
    [] OTHER -> FALSE

is_condition_expired_early(data, current_time, current_round) ==
  CASE data.duration_type \in {"permanent", "until_dispelled"} -> FALSE
    [] data.duration_type = "save_ends" -> FALSE
    [] data.duration_type = "rounds" ->
         current_round >= data.applied_round + data.duration_value - 1
    [] data.duration_type = "minutes" ->
         current_time >= data.applied_time + data.duration_value * 60
    [] data.duration_type = "hours" ->
         current_time >= data.applied_time + data.duration_value * 3600
    [] OTHER -> FALSE

\* _is_condition_expired
is_condition_expired(data, current_time, current_round) ==
  CASE data.duration_type \in {"permanent", "until_dispelled"} -> FALSE
    [] data.duration_type = "save_ends" -> FALSE
    [] data.duration_type = "rounds" ->
         current_round >= data.applied_round + data.duration_value
    [] data.duration_type = "minutes" ->
         current_time >= data.applied_time + data.duration_value * 60
    [] data.duration_type = "hours" ->
         current_time >= data.applied_time + data.duration_value * 3600
    [] OTHER -> FALSE

\* The (creature, name) pairs the registry stores.
Stored(cc) == {p \in Creatures \X ConditionNames : cc[p[1]][p[2]] # NoCondition}

RECURSIVE RemoveAll(_, _)
\* update_condition_durations, lines 433-435: remove_condition for each pair.
RemoveAll(st, pairs) ==
  IF pairs = {} THEN st
  ELSE LET p == CHOOSE q \in pairs : TRUE
       IN RemoveAll(remove_condition(st, p[1], p[2]).st, pairs \ {p})

\* Mutant: every sweep counts one more round.
update_condition_durations_mutant(st, rounds_passed) ==
  LET round == current_combat_round + rounds_passed + 1
      expired_conditions ==
        {p \in Stored(st.cc) : is_condition_expired(st.cc[p[1]][p[2]], now, round)}
  IN [st |-> RemoveAll(st, expired_conditions), round |-> round,
      ret |-> Cardinality(expired_conditions)]

\* update_condition_durations: [st, round, ret]
update_condition_durations(st, rounds_passed) ==
  LET round == IF rounds_passed > 0 THEN current_combat_round + rounds_passed
               ELSE current_combat_round
      expired_conditions ==
        {p \in Stored(st.cc) : is_condition_expired(st.cc[p[1]][p[2]], now, round)}
  IN [st |-> RemoveAll(st, expired_conditions), round |-> round,
      ret |-> Cardinality(expired_conditions)]

\* update_concentrations: the effects that expired or whose caster cannot
\* concentrate are broken, each with its reason.
RECURSIVE BreakAll(_, _)
BreakAll(st, casters) ==
  IF casters = {} THEN st
  ELSE LET c == CHOOSE q \in casters : TRUE
           reason == IF is_expired(st.conc[c]) THEN "Duration expired"
                     ELSE "Cannot concentrate"
       IN BreakAll(break_concentration(st, c, reason).st, casters \ {c})

update_concentrations(st) ==
  LET expired_casters ==
        {c \in Creatures : /\ st.conc[c] # NoEffect
                           /\ (is_expired(st.conc[c]) \/ ~can_concentrate(st.conds, c))}
  IN BreakAll(st, expired_casters)

\* ------------------------------------------------------------------ Init
NoEconomy == [action_used |-> FALSE, bonus_action_used |-> FALSE, reaction_used |-> FALSE,
              movement_used |-> -1, free_object_interaction_used |-> FALSE]
NoState == [teams |-> <<>>, present |-> FALSE]
\* Creature.__init__ and Creature.start_turn: the three keys, each None.
NoReadied == [trigger |-> None, action |-> None, target |-> None]
\* The empty dict trigger_readied_action leaves behind: no key is there.
EmptyDict == [trigger |-> "absent", action |-> "absent", target |-> "absent"]
Resources == {"action", "bonus_action", "reaction", "free_object_interaction"}

Init ==
  /\ is_alive = [c \in Creatures |-> TRUE]
  /\ current_hp = HP
  /\ conditions = [c \in Creatures |-> {}]
  /\ creature_conditions = [c \in Creatures |-> [n \in ConditionNames |-> NoCondition]]
  /\ current_combat_round = 0
  /\ now = 0
  /\ active_concentrations = [c \in Creatures |-> NoEffect]
  /\ creature_economies = [c \in Creatures |-> NoEconomy]
  /\ movement_for_turn = Speed
  /\ readied_action = [c \in Creatures |-> NoReadied]
  /\ turn_order = <<>>
  /\ current_turn_index = 0
  /\ round_number = 1
  /\ combat_active = FALSE
  /\ combat_state = NoState
  /\ op = OpRec("init", None, None, 0, FALSE, 0, None, <<>>)
  /\ hist = [c \in Creatures |-> [r \in Resources |-> [uses |-> 0, refunds |-> 0]]]

\* --------------------------------------------------- actions: concentration
SetSt(st) ==
  /\ creature_conditions' = st.cc
  /\ conditions' = st.conds
  /\ active_concentrations' = st.conc

StartConcentration(caster, effect_name, duration_seconds, spell_level) ==
  LET r == start_concentration(St, caster, effect_name, duration_seconds, spell_level)
  IN /\ SetSt(r.st)
     /\ op' = OpRec("start_concentration", caster, effect_name, duration_seconds,
                    r.ret, 0, None, r.st.log)
     /\ UNCHANGED <<bodyVars, current_combat_round, now, econVars, turnVars, hist>>

\* ConcentrationSystem.break_concentration; the call record keeps the effect
\* held when it was called.
BreakConcentration(caster, reason) ==
  LET r == break_concentration(St, caster, reason)
  IN /\ SetSt(r.st)
     /\ op' = OpRec("break_concentration", caster,
                    active_concentrations[caster].effect_name, 0, r.ret, 0, None, r.st.log)
     /\ UNCHANGED <<bodyVars, current_combat_round, now, econVars, turnVars, hist>>

\* ConcentrationSystem.end_concentration
EndConcentration(caster) ==
  LET r == break_concentration(St, caster, "Voluntarily ended")
  IN /\ SetSt(r.st)
     /\ op' = OpRec("end_concentration", caster, None, 0, r.ret, 0, None, r.st.log)
     /\ UNCHANGED <<bodyVars, current_combat_round, now, econVars, turnVars, hist>>

CheckConcentrationSave(caster, damage_taken, roll) ==
  LET r == check_concentration_save(St, caster, damage_taken, roll)
  IN /\ SetSt(r.st)
     /\ op' = WithRoll(OpRec("check_concentration_save", caster,
                             active_concentrations[caster].effect_name, damage_taken,
                             r.ret, r.dc, None, r.st.log), roll)
     /\ UNCHANGED <<bodyVars, current_combat_round, now, econVars, turnVars, hist>>

\* The record of a sweep keeps the name of the call made before it.
UpdateConcentrations ==
  LET st == update_concentrations(St)
  IN /\ SetSt(st)
     /\ op' = OpRec("update_concentrations", None, op.name, 0, TRUE, 0, None, st.log)
     /\ UNCHANGED <<bodyVars, current_combat_round, now, econVars, turnVars, hist>>

\* time.time() moves on between two calls.
Tick(instants) ==
  /\ \E t \in instants : t > now /\ now' = t
  /\ op' = OpRec("tick", None, None, 0, TRUE, 0, None, <<>>)
  /\ UNCHANGED <<bodyVars, condVars, concVars, econVars, turnVars, hist>>

\* ------------------------------------------------------ actions: conditions
\* The record of an add_condition call keeps the name as it was passed and the
\* optional arguments.
WithCall(rec, raw, a) ==
  [f \in DOMAIN rec \cup {"raw", "args"} |->
     CASE f = "raw" -> raw [] f = "args" -> a [] OTHER -> rec[f]]

AddCondition(target, name, a) ==
  LET st == add_condition(St, target, name, a)
  IN /\ SetSt(st)
     /\ op' = WithCall(OpRec("add_condition", target, Lower(name), 0, TRUE, 0, None,
                             st.log), name, a)
     /\ UNCHANGED <<bodyVars, current_combat_round, now, econVars, turnVars, hist>>

\* The record of a remove_condition call keeps the instance stored under the
\* name when it was called.
WithRemoved(rec, data) ==
  [f \in DOMAIN rec \cup {"removed"} |-> IF f = "removed" THEN data ELSE rec[f]]

RemoveCondition(target, name) ==
  LET r == remove_condition(St, target, name)
  IN /\ SetSt(r.st)
     /\ op' = WithRemoved(OpRec("remove_condition", target, Lower(name), 0, r.ret, 0,
                                None, <<>>),
                          creature_conditions[target][Lower(name)])
     /\ UNCHANGED <<bodyVars, current_combat_round, now, econVars, turnVars, hist>>

UpdateConditionDurations(rounds_passed) ==
  LET r == update_condition_durations(St, rounds_passed)
  IN /\ r.round <= MaxRound
     /\ SetSt(r.st)
     /\ current_combat_round' = r.round
     /\ op' = OpRec("update_condition_durations", None, op.name, rounds_passed,
                    TRUE, r.ret, None, <<>>)
     /\ UNCHANGED <<bodyVars, now, econVars, turnVars, hist>>

\* set_combat_round
SetCombatRound(round_number_arg) ==
  /\ current_combat_round' = round_number_arg
  /\ op' = OpRec("set_combat_round", None, None, round_number_arg, TRUE, 0, None, <<>>)
  /\ UNCHANGED <<bodyVars, conditions, creature_conditions, now, concVars, econVars,
                 turnVars, hist>>

\* cleanup_creature: the registry forgets the creature; its mirror set stays.
CleanupCreature(creature) ==
  /\ creature_conditions' =
       [creature_conditions EXCEPT ![creature] = [n \in ConditionNames |-> NoCondition]]
  /\ op' = OpRec("cleanup_creature", creature, None, 0, TRUE, 0, None, <<>>)
  /\ UNCHANGED <<bodyVars, conditions, current_combat_round, now, concVars, econVars,
                 turnVars, hist>>

\* ------------------------------------------------------ actions: creatures
\* ActionEconomyManager.cleanup_dead_creatures
cleanup_dead_creatures(economies, alive) ==
  [c \in Creatures |-> IF ~alive[c] THEN NoEconomy ELSE economies[c]]

\* Creature.take_damage
TakeDamage(creature, amount) ==
  LET hp == current_hp[creature] - amount
  IN /\ IF hp <= 0
        THEN /\ current_hp' = [current_hp EXCEPT ![creature] = 0]
             /\ is_alive' = [is_alive EXCEPT ![creature] = FALSE]
             /\ creature_economies' = cleanup_dead_creatures(creature_economies, is_alive')
        ELSE /\ current_hp' = [current_hp EXCEPT ![creature] = hp]
             /\ UNCHANGED <<is_alive, creature_economies>>
     /\ op' = OpRec("take_damage", creature, None, amount, TRUE, 0, None, <<>>)
     /\ UNCHANGED <<condVars, now, concVars, movement_for_turn, readied_action, turnVars,
                    hist>>

\* ------------------------------------------ specification: concentration
Casters == {"Barbarian", "Cleric"}
EffectNames == {"Bless", "Shield"}
Durations == {0, 60}
SpellLevels == {<<>>}
Damages == {5, 20, 30, 70}

Next ==
  \/ \E c \in Casters, e \in EffectNames, d \in Durations, l \in SpellLevels :
       StartConcentration(c, e, d, l)
  \/ \E c \in Casters : EndConcentration(c)
  \/ \E c \in Casters, d \in Damages, roll \in D20 : CheckConcentrationSave(c, d, roll)
  \/ UpdateConcentrations
  \/ \E c \in Casters : AddCondition(c, "stunned", NoArgs)
  \/ \E c \in Casters, n \in {"stunned", "incapacitated"} : RemoveCondition(c, n)
  \/ \E c \in Casters : TakeDamage(c, HP[c])

Spec == Init /\ [][Next]_vars

\* ------------------------------------------ specification: condition durations
CondTargets == {"Archer", "Cleric"}
WithDuration(duration_type, duration_value) ==
  [NoArgs EXCEPT !.duration_type = <<duration_type>>, !.duration_value = <<duration_value>>]
\* The add_condition calls of the duration specification: "blinded" with its
\* default (SAVE_ENDS), for one or two rounds, for one minute, permanently and
\* until dispelled.
DurationArgs ==
  {NoArgs, WithDuration("rounds", 1), WithDuration("rounds", 2),
   WithDuration("minutes", 1), WithDuration("permanent", 0),
   WithDuration("until_dispelled", 0)}

NextCond ==
  \/ \E t \in CondTargets, a \in DurationArgs : AddCondition(t, "blinded", a)
  \/ \E t \in CondTargets : RemoveCondition(t, "blinded")
  \/ \E rp \in 0..2 : UpdateConditionDurations(rp)
  \/ \E r \in 0..MaxRound : SetCombatRound(r)
  \/ \E t \in CondTargets : CleanupCreature(t)
  \/ Tick({60})

SpecCond == Init /\ [][NextCond]_vars

\* ------------------------------------------ specification: implied conditions
CascadeTargets == {"Cleric"}
CascadeNames == {"stunned", "unconscious", "incapacitated", "prone"}

NextCascade ==
  \/ \E t \in CascadeTargets, n \in CascadeNames : AddCondition(t, n, NoArgs)
  \/ \E t \in CascadeTargets, n \in CascadeNames : RemoveCondition(t, n)
  \/ \E rp \in 0..1 : UpdateConditionDurations(rp)

SpecCascade == Init /\ [][NextCascade]_vars

\* ------------------------------------------------ Action-Economy Tracker
\* The economy calls thread es = [econ, mft, hist, started]: the manager's map,
\* the creatures' movement_for_turn, the use history and the creatures whose
\* start_turn the call has run so far.
Es == [econ |-> creature_economies, mft |-> movement_for_turn, hist |-> hist,
       started |-> <<>>]

NoUses == [r \in Resources |-> [uses |-> 0, refunds |-> 0]]

\* Mutant: the movement budget is left as the last turn made it.
reset_turn_mutant(es, creature) ==
  [es EXCEPT !.econ[creature] =
               [action_used |-> FALSE, bonus_action_used |-> FALSE,
                reaction_used |-> FALSE, movement_used |-> 0,
                free_object_interaction_used |-> FALSE],
             !.hist[creature] = NoUses]

\* ActionEconomy.reset_turn
reset_turn(es, creature) ==
  [es EXCEPT !.econ[creature] =
               [action_used |-> FALSE, bonus_action_used |-> FALSE,
                reaction_used |-> FALSE, movement_used |-> 0,
                free_object_interaction_used |-> FALSE],
             !.mft[creature] = Speed[creature],
             !.hist[creature] = NoUses]

\* ActionEconomyManager.get_economy: ActionEconomy.__init__ calls reset_turn.
get_economy(es, creature) ==
  IF es.econ[creature] = NoEconomy THEN reset_turn(es, creature) ELSE es

Used(es, creature, resource) ==
  [es EXCEPT !.hist[creature][resource].uses = @ + 1]

\* Mutant: the action is granted without looking at action_used.
use_action_mutant(es, creature) ==
  IF ~is_alive[creature]
  THEN [es |-> es, ret |-> FALSE]
  ELSE [es |-> Used([es EXCEPT !.econ[creature].action_used = TRUE], creature, "action"),
        ret |-> TRUE]

\* ActionEconomy.use_action (can_take_action inlined)
use_action(es, creature) ==
  IF ~(~es.econ[creature].action_used /\ is_alive[creature])
  THEN [es |-> es, ret |-> FALSE]
  ELSE [es |-> Used([es EXCEPT !.econ[creature].action_used = TRUE], creature, "action"),
        ret |-> TRUE]

\* ActionEconomy.use_bonus_action
use_bonus_action(es, creature) ==
  IF ~(~es.econ[creature].bonus_action_used /\ is_alive[creature])
  THEN [es |-> es, ret |-> FALSE]
  ELSE [es |-> Used([es EXCEPT !.econ[creature].bonus_action_used = TRUE],
                    creature, "bonus_action"),
        ret |-> TRUE]

\* ActionEconomy.use_reaction
use_reaction(es, creature) ==
  IF ~(~es.econ[creature].reaction_used /\ is_alive[creature])
  THEN [es |-> es, ret |-> FALSE]
  ELSE [es |-> Used([es EXCEPT !.econ[creature].reaction_used = TRUE],
                    creature, "reaction"),
        ret |-> TRUE]

\* ActionEconomy.use_free_object_interaction
use_free_object_interaction(es, creature) ==
  IF es.econ[creature].free_object_interaction_used
  THEN [es |-> es, ret |-> FALSE]
  ELSE [es |-> Used([es EXCEPT !.econ[creature].free_object_interaction_used = TRUE],
                    creature, "free_object_interaction"),
        ret |-> TRUE]

\* ActionEconomyManager.use_action (Creature.use_action delegates to it)
manager_use_action(es, creature, action_type) ==
  LET e1 == get_economy(es, creature)
  IN CASE action_type = "action" -> use_action(e1, creature)
       [] action_type = "bonus_action" -> use_bonus_action(e1, creature)
       [] action_type = "reaction" -> use_reaction(e1, creature)
       [] OTHER -> [es |-> e1, ret |-> FALSE]

\* ActionExecutionSystem._validate_action
validate_action(performer) ==
  is_alive[performer] /\ "incapacitated" \notin conditions[performer]

\* ActionExecutionSystem._consume_resource
consume_resource(es, performer, action_type) ==
  LET e1 == get_economy(es, performer)
  IN CASE action_type = "action" -> use_action(e1, performer)
       [] action_type = "bonus_action" -> use_bonus_action(e1, performer)
       [] action_type = "reaction" -> use_reaction(e1, performer)
       [] action_type = "free_action" -> [es |-> e1, ret |-> TRUE]
       [] OTHER -> [es |-> e1, ret |-> FALSE]

Refunded(es, creature, resource) ==
  [es EXCEPT !.hist[creature][resource].refunds = @ + 1]

\* Mutant: nothing is given back.
refund_resource_mutant(es, performer, action_type) == get_economy(es, performer)

\* ActionExecutionSystem._refund_resource
refund_resource(es, performer, action_type) ==
  LET e1 == get_economy(es, performer)
  IN CASE action_type = "action" ->
            Refunded([e1 EXCEPT !.econ[performer].action_used = FALSE], performer, "action")
       [] action_type = "bonus_action" ->
            Refunded([e1 EXCEPT !.econ[performer].bonus_action_used = FALSE],
                     performer, "bonus_action")
       [] action_type = "reaction" ->
            Refunded([e1 EXCEPT !.econ[performer].reaction_used = FALSE],
                     performer, "reaction")
       [] OTHER -> e1

\* The action bodies: DashAction.execute and DodgeAction.execute return True, a
\* body may return False, and a body may raise.
Bodies == {"Dash", "Dodge", "Fails", "Raises"}

\* action_instance.execute(performer)
execute_body(es, performer, body) ==
  IF body = "Dash" THEN [es EXCEPT !.mft[performer] = @ + Speed[performer]] ELSE es

\* ActionExecutionSystem.execute_action: [es, success, action_used]
execute_action(es, performer, body, action_type, in_range) ==
  IF ~validate_action(performer)
  THEN [es |-> es, success |-> FALSE, action_used |-> FALSE]
  ELSE IF ~in_range
  THEN [es |-> es, success |-> FALSE, action_used |-> FALSE]
  ELSE LET c == consume_resource(es, performer, action_type)
       IN IF ~c.ret
          THEN [es |-> c.es, success |-> FALSE, action_used |-> FALSE]
          ELSE IF body = "Raises"
          THEN [es |-> refund_resource(c.es, performer, action_type),
                success |-> FALSE, action_used |-> FALSE]
          ELSE [es |-> execute_body(c.es, performer, body),
                success |-> body # "Fails", action_used |-> TRUE]

\* Creature.start_turn also forgets the creature's readied action.
SetEs(es) ==
  /\ creature_economies' = es.econ
  /\ movement_for_turn' = es.mft
  /\ readied_action' = [c \in Creatures |->
                          IF \E i \in 1..Len(es.started) : es.started[i] = c
                          THEN NoReadied ELSE readied_action[c]]
  /\ hist' = es.hist

\* Every successful use counted in hist stays within the model's bound.
WithinUses(es) ==
  \A c \in Creatures, r \in Resources : es.hist[c][r].uses <= MaxUses

\* Creature.start_turn -> ActionEconomyManager.start_turn; the call record keeps
\* the movement budget the creature had when it was called.
StartTurn(creature) ==
  /\ SetEs([reset_turn(get_economy(Es, creature), creature) EXCEPT !.started = <<creature>>])
  /\ op' = OpRec("start_turn", creature, None, movement_for_turn[creature], TRUE, 0,
                 None, <<>>)
  /\ UNCHANGED <<bodyVars, condVars, now, concVars, turnVars>>

\* Creature.use_action / ActionEconomyManager.use_action
UseAction(creature, action_type) ==
  LET r == manager_use_action(Es, creature, action_type)
  IN /\ WithinUses(r.es)
     /\ SetEs(r.es)
     /\ op' = OpRec("use_action", creature, action_type, 0, r.ret, 0, None, <<>>)
     /\ UNCHANGED <<bodyVars, condVars, now, concVars, turnVars>>

\* ActionEconomyManager.get_economy(creature).use_free_object_interaction()
UseFreeObjectInteraction(creature) ==
  LET r == use_free_object_interaction(get_economy(Es, creature), creature)
  IN /\ WithinUses(r.es)
     /\ SetEs(r.es)
     /\ op' = OpRec("use_free_object_interaction", creature, "free_object_interaction",
                    0, r.ret, 0, None, <<>>)
     /\ UNCHANGED <<bodyVars, condVars, now, concVars, turnVars>>

\* ActionExecutionSystem.execute_action
ExecuteAction(performer, body, action_type, in_range) ==
  LET r == execute_action(Es, performer, body, action_type, in_range)
  IN /\ WithinUses(r.es)
     /\ SetEs(r.es)
     /\ op' = OpRec("execute_action", performer, action_type, 0, r.success,
                    IF r.action_used THEN 1 ELSE 0, body, <<>>)
     /\ UNCHANGED <<bodyVars, condVars, now, concVars, turnVars>>

\* ------------------------------------------ specification: action economy
Actors == {"Cleric"}
Bystanders == {"Archer"}
ActionTypes == {"action", "bonus_action", "reaction", "free_action"}

NextEcon ==
  \/ \E c \in Actors \cup Bystanders : StartTurn(c)
  \/ \E c \in Actors, t \in ActionTypes : UseAction(c, t)
  \/ \E c \in Actors : UseFreeObjectInteraction(c)
  \/ \E c \in Actors, b \in {"Dodge", "Raises"}, t \in ActionTypes, in_range \in BOOLEAN :
       ExecuteAction(c, b, t, in_range)
  \/ \E c \in Actors \cup Bystanders : TakeDamage(c, HP[c])
  \/ \E c \in Actors : AddCondition(c, "incapacitated", NoArgs)
  \/ \E c \in Actors : RemoveCondition(c, "incapacitated")

SpecEcon == Init /\ [][NextEcon]_vars

\* ------------------------------------------------ Initiative / Turn Sequencer
\* InitiativeSystem.roll_initiative_for_creature: rolls = <<r1, r2>>, the second
\* is thrown only for a surprised creature (disadvantage).
roll_initiative_for_creature(creature, surprised, rolls) ==
  LET d20_result == IF surprised THEN Min(rolls[1], rolls[2]) ELSE rolls[1]
  IN [creature |-> creature,
      initiative_count |-> d20_result + DexMod[creature],
      was_surprised |-> surprised]

\* InitiativeSystem.roll_initiative_for_group
roll_initiative_for_group(creatures, surprised_creatures, dice) ==
  [i \in 1..Len(creatures) |->
     roll_initiative_for_creature(creatures[i], creatures[i] \in surprised_creatures,
                                  dice[i])]

\* Mutant: equal totals are ordered by ascending name.
KeyGreaterAscendingName(a, b) ==
  \/ a.initiative_count > b.initiative_count
  \/ /\ a.initiative_count = b.initiative_count
     /\ NameOrd(a.creature) < NameOrd(b.creature)

\* Mutant: the totals are ordered ascending.
KeyGreaterAscendingTotal(a, b) ==
  \/ a.initiative_count < b.initiative_count
  \/ /\ a.initiative_count = b.initiative_count
     /\ NameOrd(a.creature) > NameOrd(b.creature)

\* The sort key (initiative_count, creature.name) of determine_turn_order:
\* tuple comparison, a > b.
KeyGreater(a, b) ==
  \/ a.initiative_count > b.initiative_count
  \/ /\ a.initiative_count = b.initiative_count
     /\ NameOrd(a.creature) > NameOrd(b.creature)

RECURSIVE InsertSorted(_, _)
\* sorted(..., reverse=True) is stable: x goes behind every entry whose key is
\* greater than or equal to its own.
InsertSorted(sorted, x) ==
  IF sorted = <<>> THEN <<x>>
  ELSE IF KeyGreater(x, Head(sorted)) THEN <<x>> \o sorted
       ELSE <<Head(sorted)>> \o InsertSorted(Tail(sorted), x)

RECURSIVE SortFrom(_, _, _)
SortFrom(results, i, sorted) ==
  IF i > Len(results) THEN sorted
  ELSE SortFrom(results, i + 1, InsertSorted(sorted, results[i]))

\* InitiativeSystem.determine_turn_order
determine_turn_order(initiative_results) == SortFrom(initiative_results, 1, <<>>)

\* The tracker's fields threaded through one call.
Tr == [turn_order |-> turn_order, index |-> current_turn_index,
       round |-> round_number, active |-> combat_active]

\* InitiativeTracker.get_current_creature (None when inactive or empty)
get_current_creature(tr) ==
  IF ~tr.active \/ tr.turn_order = <<>> THEN None
  ELSE tr.turn_order[tr.index + 1].creature

\* Mutant: the round number is not reset.
start_combat_mutant(creatures, surprised_creatures, dice) ==
  [turn_order |-> determine_turn_order(
                    roll_initiative_for_group(creatures, surprised_creatures, dice)),
   index |-> 0, round |-> 2, active |-> TRUE]

\* InitiativeTracker.start_combat
start_combat(creatures, surprised_creatures, dice) ==
  [turn_order |-> determine_turn_order(
                    roll_initiative_for_group(creatures, surprised_creatures, dice)),
   index |-> 0, round |-> 1, active |-> TRUE]

\* Mutant: the tracker forgets the order but stays active.
tracker_end_combat_mutant(tr) ==
  [turn_order |-> <<>>, index |-> 0, round |-> 1, active |-> tr.active]

\* InitiativeTracker.end_combat
tracker_end_combat(tr) ==
  [turn_order |-> <<>>, index |-> 0, round |-> 1, active |-> FALSE]

\* InitiativeTracker._should_end_combat
should_end_combat(tr) ==
  Cardinality({i \in 1..Len(tr.turn_order) : is_alive[tr.turn_order[i].creature]}) <= 1

\* Mutant: the cursor is not brought back to the first entry.
next_turn_unwrapped(tr) ==
  IF ~tr.active THEN [tr |-> tr, res |-> None]
  ELSE LET i1 == tr.index + 1
           t1 == IF i1 >= Len(tr.turn_order)
                 THEN [tr EXCEPT !.index = i1, !.round = @ + 1]
                 ELSE [tr EXCEPT !.index = i1]
       IN IF should_end_combat(t1)
          THEN [tr |-> tracker_end_combat(t1), res |-> None]
          ELSE [tr |-> t1,
                res |-> IF i1 >= Len(tr.turn_order) THEN None ELSE get_current_creature(t1)]

\* Mutant: a new round starts with the first entry moved to the end.
next_turn_mutant(tr) ==
  IF ~tr.active THEN [tr |-> tr, res |-> None]
  ELSE LET i1 == tr.index + 1
           t1 == IF i1 >= Len(tr.turn_order)
                 THEN [tr EXCEPT !.index = 0, !.round = @ + 1,
                                 !.turn_order = Tail(@) \o <<Head(@)>>]
                 ELSE [tr EXCEPT !.index = i1]
       IN IF should_end_combat(t1)
          THEN [tr |-> tracker_end_combat(t1), res |-> None]
          ELSE [tr |-> t1, res |-> get_current_creature(t1)]

\* InitiativeTracker.next_turn: [tr, res]
next_turn(tr) ==
  IF ~tr.active THEN [tr |-> tr, res |-> None]
  ELSE LET i1 == tr.index + 1
           t1 == IF i1 >= Len(tr.turn_order)
                 THEN [tr EXCEPT !.index = 0, !.round = @ + 1]
                 ELSE [tr EXCEPT !.index = i1]
       IN IF should_end_combat(t1)
          THEN [tr |-> tracker_end_combat(t1), res |-> None]
          ELSE [tr |-> t1, res |-> get_current_creature(t1)]

RECURSIVE skip_dead_creatures_mutant(_)
\* Mutant: skipping past the end of the order starts no new round.
skip_dead_creatures_mutant(tr) ==
  IF /\ tr.active
     /\ tr.index < Len(tr.turn_order)
     /\ ~is_alive[get_current_creature(tr)]
  THEN IF tr.index + 1 >= Len(tr.turn_order)
       THEN [tr EXCEPT !.index = 0]
       ELSE skip_dead_creatures_mutant([tr EXCEPT !.index = @ + 1])
  ELSE tr

RECURSIVE skip_dead_creatures(_)
\* InitiativeTracker.skip_dead_creatures
skip_dead_creatures(tr) ==
  IF /\ tr.active
     /\ tr.index < Len(tr.turn_order)
     /\ ~is_alive[get_current_creature(tr)]
  THEN IF tr.index + 1 >= Len(tr.turn_order)
       THEN [tr EXCEPT !.index = 0, !.round = @ + 1]
       ELSE skip_dead_creatures([tr EXCEPT !.index = @ + 1])
  ELSE tr

\* ------------------------------------------------ Encounter Orchestrator
\* The concatenation of the teams' member lists (setup_combat, lines 64-68).
RECURSIVE AllParticipants(_)
AllParticipants(teams) ==
  IF teams = <<>> THEN <<>> ELSE Head(teams).members \o AllParticipants(Tail(teams))

\* CombatState.get_teams_status: the teams with a living member.
LivingTeams(state, alive) ==
  {state.teams[i].name : i \in
     {j \in 1..Len(state.teams) :
        \E k \in 1..Len(state.teams[j].members) : alive[state.teams[j].members[k]]}}

SetTr(tr) ==
  /\ turn_order' = tr.turn_order
  /\ current_turn_index' = tr.index
  /\ round_number' = tr.round
  /\ combat_active' = tr.active

\* Mutant: the turn is not started.
start_creature_turn_mutant(es, creature) == es

\* CombatManager._start_creature_turn -> Creature.start_turn ->
\* ActionEconomyManager.start_turn
start_creature_turn(es, creature) ==
  [reset_turn(get_economy(es, creature), creature) EXCEPT !.started = Append(@, creature)]

\* The record of an orchestrator call keeps the start_turn calls it made.
WithStarted(rec, started) ==
  [f \in DOMAIN rec \cup {"started"} |-> IF f = "started" THEN started ELSE rec[f]]

\* CombatManager.setup_combat; the call record keeps the name of the call made
\* before it.
SetupCombat(teams, surprised_creatures, dice) ==
  LET tr == start_combat(AllParticipants(teams), surprised_creatures, dice)
      first_creature == get_current_creature(tr)
      e1 == IF first_creature # None THEN start_creature_turn(Es, first_creature) ELSE Es
  IN /\ SetTr(tr)
     /\ combat_state' = [teams |-> teams, present |-> TRUE]
     /\ SetEs(e1)
     /\ op' = WithStarted(
                OpRec("setup_combat", None, op.name, 0, first_creature # None, 0,
                      first_creature,
                      [i \in 1..Len(AllParticipants(teams)) |->
                         <<dice[i][1], dice[i][2],
                           AllParticipants(teams)[i] \in surprised_creatures>>]),
                e1.started)
     /\ UNCHANGED <<bodyVars, condVars, now, concVars>>

\* Mutant: the encounter is only ended when no team has a living member.
check_combat_end_mutant(state) ==
  IF ~state.present THEN [ended |-> FALSE, end |-> TRUE, declared |-> None]
  ELSE LET living_teams == LivingTeams(state, is_alive)
       IN IF Cardinality(living_teams) < 1
          THEN [ended |-> TRUE, end |-> TRUE, declared |-> "no winner"]
          ELSE [ended |-> FALSE, end |-> FALSE, declared |-> None]

\* CombatManager._check_combat_end: whether it returns True (end), whether it
\* called end_combat (ended), and the winner it declared.
check_combat_end(state) ==
  IF ~state.present THEN [ended |-> FALSE, end |-> TRUE, declared |-> None]
  ELSE LET living_teams == LivingTeams(state, is_alive)
       IN IF Cardinality(living_teams) <= 1
          THEN [ended |-> TRUE, end |-> TRUE,
                declared |-> IF Cardinality(living_teams) = 1
                             THEN CHOOSE t \in living_teams : TRUE
                             ELSE "no winner"]
          ELSE [ended |-> FALSE, end |-> FALSE, declared |-> None]

\* Mutant: the turn of an ended encounter is closed all the same
\* (_end_creature_turn's cleanup runs before the active check).
AdvanceTurnAlwaysCleans ==
  /\ ~combat_active
  /\ SetEs([Es EXCEPT !.econ = cleanup_dead_creatures(@, is_alive)])
  /\ op' = WithStarted(OpRec("advance_turn", None, None, 0, FALSE, 0, None, <<>>), <<>>)
  /\ UNCHANGED <<bodyVars, condVars, now, concVars, turnVars>>

\* The record of a call that moves the cursor keeps the cursor index before the
\* call and after each tracker call it made.
WithCursor(rec, cursor) ==
  [f \in DOMAIN rec \cup {"cursor"} |-> IF f = "cursor" THEN cursor ELSE rec[f]]

\* Mutant: a turn that opens a new round passes the round on to the condition
\* registry.
AdvanceTurnSyncsRound ==
  IF ~combat_active
  THEN /\ op' = WithStarted(OpRec("advance_turn", None, None, 0, FALSE, 0, None, <<>>),
                          <<>>)
       /\ UNCHANGED <<bodyVars, condVars, now, concVars, econVars, turnVars, hist>>
  ELSE LET current_creature == get_current_creature(Tr)
           \* _end_creature_turn
           e1 == IF current_creature # None
                 THEN [Es EXCEPT !.econ = cleanup_dead_creatures(@, is_alive)]
                 ELSE Es
           t1 == skip_dead_creatures(Tr)
           chk == check_combat_end(combat_state)
           nt == next_turn(t1)
           e2 == IF nt.res # None THEN start_creature_turn(e1, nt.res) ELSE e1
       IN /\ chk.end \/ nt.tr.round <= MaxRound
          /\ IF chk.end
             THEN /\ SetTr(IF chk.ended THEN tracker_end_combat(t1) ELSE t1)
                  /\ combat_state' = IF chk.ended THEN NoState ELSE combat_state
                  /\ SetEs(e1)
                  /\ op' = WithCursor(
                             WithStarted(OpRec("advance_turn", current_creature,
                                               chk.declared, 0, FALSE, 0, None, <<>>),
                                         e1.started),
                             <<current_turn_index, t1.index>>)
             ELSE /\ SetTr(nt.tr)
                  /\ combat_state' = combat_state
                  /\ SetEs(e2)
                  /\ op' = WithCursor(
                             WithStarted(OpRec("advance_turn", current_creature, None, 0,
                                               nt.res # None, 0, nt.res, <<>>),
                                         e2.started),
                             <<current_turn_index, t1.index, nt.tr.index>>)
          /\ current_combat_round' = IF chk.end \/ ~nt.tr.active
                                      THEN current_combat_round ELSE nt.tr.round
          /\ UNCHANGED <<bodyVars, conditions, creature_conditions, now, concVars>>

\* CombatManager.advance_turn
AdvanceTurn ==
  IF ~combat_active
  THEN /\ op' = WithStarted(OpRec("advance_turn", None, None, 0, FALSE, 0, None, <<>>),
                          <<>>)
       /\ UNCHANGED <<bodyVars, condVars, now, concVars, econVars, turnVars, hist>>
  ELSE LET current_creature == get_current_creature(Tr)
           \* _end_creature_turn
           e1 == IF current_creature # None
                 THEN [Es EXCEPT !.econ = cleanup_dead_creatures(@, is_alive)]
                 ELSE Es
           t1 == skip_dead_creatures(Tr)
           chk == check_combat_end(combat_state)
           nt == next_turn(t1)
           e2 == IF nt.res # None THEN start_creature_turn(e1, nt.res) ELSE e1
       IN /\ chk.end \/ nt.tr.round <= MaxRound
          /\ IF chk.end
             THEN /\ SetTr(IF chk.ended THEN tracker_end_combat(t1) ELSE t1)
                  /\ combat_state' = IF chk.ended THEN NoState ELSE combat_state
                  /\ SetEs(e1)
                  /\ op' = WithCursor(
                             WithStarted(OpRec("advance_turn", current_creature,
                                               chk.declared, 0, FALSE, 0, None, <<>>),
                                         e1.started),
                             <<current_turn_index, t1.index>>)
             ELSE /\ SetTr(nt.tr)
                  /\ combat_state' = combat_state
                  /\ SetEs(e2)
                  /\ op' = WithCursor(
                             WithStarted(OpRec("advance_turn", current_creature, None, 0,
                                               nt.res # None, 0, nt.res, <<>>),
                                         e2.started),
                             <<current_turn_index, t1.index, nt.tr.index>>)
          /\ UNCHANGED <<bodyVars, condVars, now, concVars>>

\* CombatManager.end_combat / force_end_combat; the call record keeps whether
\* the tracker was active when it was called.
EndCombat ==
  /\ SetTr(tracker_end_combat(Tr))
  /\ combat_state' = NoState
  /\ op' = OpRec("end_combat", None, "forced", 0, combat_active, 0, None, <<>>)
  /\ UNCHANGED <<bodyVars, condVars, now, concVars, econVars, hist>>

\* InitiativeTracker.next_turn called on the tracker; the call record keeps
\* whether the tracker was active when it was called.
TrackerNextTurn ==
  LET r == next_turn(Tr)
  IN /\ r.tr.round <= MaxRound
     /\ SetTr(r.tr)
     /\ combat_state' = combat_state
     /\ op' = WithCursor(OpRec("next_turn", None, None, 0, combat_active, 0, r.res, <<>>),
                         <<current_turn_index, r.tr.index>>)
     /\ UNCHANGED <<bodyVars, condVars, now, concVars, econVars, hist>>

\* CombatManager.get_current_creature
GetCurrentCreature ==
  /\ op' = OpRec("get_current_creature", None, None, 0, combat_active, 0,
                 get_current_creature(Tr), <<>>)
  /\ UNCHANGED <<bodyVars, condVars, now, concVars, econVars, turnVars, hist>>

\* ------------------------------------------------ specification: turn order
\* The dice of the initiative rolls; Dex modifiers 2, 2, 0 make every tie happen.
OrderDice == {10, 12}

Surprisable == {"Barbarian", "Cleric"}

OrderLayouts ==
  { << [name |-> "heroes", members |-> <<"Archer", "Cleric">>],
       [name |-> "monsters", members |-> <<"Barbarian">>] >>,
    << [name |-> "monsters", members |-> <<"Barbarian">>],
       [name |-> "heroes", members |-> <<"Cleric", "Archer">>] >> }

\* setup_combat over the layouts, surprise sets and dice; an unsurprised
\* creature throws one die only.
SetupAny(layouts, surprisable, d20s) ==
  \E teams \in layouts :
    LET ps == AllParticipants(teams)
    IN \E s \in SUBSET surprisable, d1 \in [1..Len(ps) -> d20s], d2 \in [1..Len(ps) -> d20s] :
         /\ \A i \in 1..Len(ps) : ps[i] \notin s => d2[i] = d1[i]
         /\ SetupCombat(teams, s, [i \in 1..Len(ps) |-> <<d1[i], d2[i]>>])

NextOrder ==
  \/ SetupAny(OrderLayouts, Surprisable, OrderDice)
  \/ EndCombat

SpecOrder == Init /\ [][NextOrder]_vars

\* ------------------------------------------------ specification: encounter
CombatDice == {10, 12}

CombatLayouts ==
  { << [name |-> "heroes", members |-> <<"Archer", "Cleric">>],
       [name |-> "monsters", members |-> <<"Barbarian">>] >>,
    << [name |-> "heroes", members |-> <<"Archer">>],
       [name |-> "monsters", members |-> <<"Barbarian", "Cleric">>] >>,
    << [name |-> "heroes", members |-> <<"Archer", "Barbarian">>] >> }

NextCombat ==
  \/ SetupAny(CombatLayouts, {}, CombatDice)
  \/ AdvanceTurn
  \/ EndCombat
  \/ \E c \in Creatures : TakeDamage(c, HP[c])

SpecCombat == Init /\ [][NextCombat]_vars

\* ------------------------------------ specification: conditions that break
BreakCasters == {"Cleric"}
BreakNames == {"stunned", "paralyzed", "unconscious", "incapacitated", "prone", "blinded"}

NextBreak ==
  \/ \E c \in BreakCasters : StartConcentration(c, "Bless", 60, <<>>)
  \/ \E c \in BreakCasters, n \in BreakNames : AddCondition(c, n, NoArgs)
  \/ \E c \in BreakCasters, n \in BreakNames : RemoveCondition(c, n)

SpecBreak == Init /\ [][NextBreak]_vars

\* ------------------------------------------------ movement
\* Mutant: the remaining movement is not looked at.
use_movement_mutant(es, creature, distance) ==
  IF ~is_alive[creature]
  THEN [es |-> es, ret |-> FALSE]
  ELSE [es |-> [es EXCEPT !.econ[creature].movement_used = @ + distance], ret |-> TRUE]

\* ActionEconomy.use_movement (can_move inlined): [es, ret]
use_movement(es, creature, distance) ==
  LET remaining_movement == es.mft[creature] - es.econ[creature].movement_used
  IN IF ~(remaining_movement >= distance /\ is_alive[creature])
     THEN [es |-> es, ret |-> FALSE]
     ELSE [es |-> [es EXCEPT !.econ[creature].movement_used = @ + distance],
           ret |-> TRUE]

\* Creature.move -> ActionEconomyManager.use_movement
Move(creature, distance) ==
  LET r == use_movement(get_economy(Es, creature), creature, distance)
  IN /\ SetEs(r.es)
     /\ op' = OpRec("move", creature, None, distance, r.ret, 0, None, <<>>)
     /\ UNCHANGED <<bodyVars, condVars, now, concVars, turnVars>>

\* ------------------------------------------ specification: movement
Movers == {"Archer", "Cleric"}
Distances == 0..3

NextMove ==
  \/ \E c \in Movers : StartTurn(c)
  \/ \E c \in Movers, d \in Distances : Move(c, d)
  \/ \E c \in Movers, t \in {"action", "bonus_action"} : ExecuteAction(c, "Dash", t, TRUE)
  \/ \E c \in Movers : TakeDamage(c, HP[c])

SpecMove == Init /\ [][NextMove]_vars

\* ------------------------------------------ specification: turns of a round
RoundLayouts ==
  { << [name |-> "heroes", members |-> <<"Archer", "Cleric">>],
       [name |-> "monsters", members |-> <<"Barbarian">>] >> }
RoundDice == {10}

NextRound ==
  \/ SetupAny(RoundLayouts, {}, RoundDice)
  \/ AdvanceTurn
  \/ EndCombat
  \/ \E c \in Creatures : UseAction(c, "action")
  \/ \E c \in Creatures : Move(c, 1)
  \/ \E c \in {"Barbarian", "Cleric"} : TakeDamage(c, HP[c])

SpecRound == Init /\ [][NextRound]_vars

\* ------------------------------------------ specification: sequencer states
SequencerLayouts ==
  { << [name |-> "heroes", members |-> <<"Archer", "Cleric">>],
       [name |-> "monsters", members |-> <<"Barbarian">>] >> }
SequencerDice == {10}

NextSequencer ==
  \/ SetupAny(SequencerLayouts, {}, SequencerDice)
  \/ AdvanceTurn
  \/ TrackerNextTurn
  \/ GetCurrentCreature
  \/ EndCombat
  \/ \E c \in {"Barbarian"} : UseAction(c, "action")
  \/ \E c \in {"Cleric"} : StartConcentration(c, "Bless", 60, <<>>)
  \/ \E c \in {"Archer"} : AddCondition(c, "prone", NoArgs)
  \/ \E c \in {"Barbarian", "Cleric"} : TakeDamage(c, HP[c])

SpecSequencer == Init /\ [][NextSequencer]_vars

\* ------------------------------------------ end-of-turn saving throws
\* Creature.get_ability_modifier: the fixtures set dex and con, every other
\* ability score defaults to 10 (modifier 0).
AbilityMod(creature, ability) ==
  CASE ability = "con" -> ConMod[creature]
    [] ability = "dex" -> DexMod[creature]
    [] OTHER -> 0

\* perform_d20_test as process_end_of_turn_saves calls it: a prone creature
\* rolls twice and keeps the lower die; no fixture dodges, is helped or has a
\* save proficiency.
saving_throw(conds, creature, ability, dc, rolls) ==
  LET d20_result == IF has_condition(conds, creature, "prone")
                    THEN Min(rolls[1], rolls[2]) ELSE rolls[1]
  IN perform_d20_test(d20_result, AbilityMod(creature, ability), dc)

\* Mutant: the save DC is not asked for.
save_due_mutant(data) ==
  /\ data.duration_type = "save_ends"
  /\ data.save_ability # None

\* process_end_of_turn_saves, lines 390-391: the instances that get a save
\* (None, "" and 0 are falsy).
save_due(data) ==
  /\ data.duration_type = "save_ends"
  /\ data.save_ability # None
  /\ data.save_dc # NoDC /\ data.save_dc # 0

RECURSIVE SaveCalls(_, _)
\* The perform_d20_test calls of the loop, one per visited instance.
SaveCalls(cc, names) ==
  IF names = {} THEN <<>>
  ELSE LET n == CHOOSE m \in names : TRUE
       IN <<n>> \o SaveCalls(cc, names \ {n})

\* Mutant: every attempted save is counted.
process_end_of_turn_saves_mutant(st, creature, rolls) ==
  LET due == {n \in ConditionNames : save_due(st.cc[creature][n])}
      conditions_to_remove ==
        {n \in due : saving_throw(st.conds, creature, st.cc[creature][n].save_ability,
                                  st.cc[creature][n].save_dc, rolls[n])}
  IN [st |-> RemoveAll(st, {<<creature, n>> : n \in conditions_to_remove}),
      ret |-> Cardinality(due),
      calls |-> SaveCalls(st.cc[creature], due)]

\* process_end_of_turn_saves: [st, ret, calls]; rolls[n] are the dice of the
\* save against instance n.
process_end_of_turn_saves(st, creature, rolls) ==
  LET due == {n \in ConditionNames : save_due(st.cc[creature][n])}
      conditions_to_remove ==
        {n \in due : saving_throw(st.conds, creature, st.cc[creature][n].save_ability,
                                  st.cc[creature][n].save_dc, rolls[n])}
  IN [st |-> RemoveAll(st, {<<creature, n>> : n \in conditions_to_remove}),
      ret |-> Cardinality(conditions_to_remove),
      calls |-> SaveCalls(st.cc[creature], due)]

\* The call record keeps the dice and the saves that were rolled.
ProcessEndOfTurnSaves(creature, rolls) ==
  LET r == process_end_of_turn_saves(St, creature, rolls)
  IN /\ SetSt(r.st)
     /\ op' = WithRoll(OpRec("process_end_of_turn_saves", creature, None, 0, FALSE,
                             r.ret, None, r.calls), rolls)
     /\ UNCHANGED <<bodyVars, current_combat_round, now, econVars, turnVars, hist>>

\* ------------------------------------------ specification: end-of-turn saves
SaveDice == {5, 11, 15}
\* The dice of one call: a pair for the save against blinded and a pair for
\* every other save.
SaveRolls ==
  {[n \in ConditionNames |-> IF n = "blinded" THEN a ELSE b] :
     a \in SaveDice \X SaveDice, b \in SaveDice \X SaveDice}
WithSave(duration_type, save_dc) ==
  [NoArgs EXCEPT !.duration_type = duration_type, !.save_dc = <<save_dc>>]
\* add_condition with the defaults, with a save DC, and with SAVE_ENDS and a
\* save DC.
SaveArgs == {NoArgs, WithSave(<<>>, 12), WithSave(<<"save_ends">>, 12)}

NextSaves ==
  \/ \E a \in SaveArgs : AddCondition("Cleric", "blinded", a)
  \/ \E a \in SaveArgs \ {NoArgs} : AddCondition("Cleric", "paralyzed", a)
  \/ \E a \in SaveArgs : AddCondition("Cleric", "grappled", a)
  \/ AddCondition("Cleric", "prone", NoArgs)
  \/ AddCondition("Archer", "blinded", WithSave(<<>>, 12))
  \/ \E c \in {"Archer", "Cleric"}, rolls \in SaveRolls : ProcessEndOfTurnSaves(c, rolls)

SpecSaves == Init /\ [][NextSaves]_vars

\* ------------------------------------------ specification: registry entries
\* add_condition with the defaults, for two rounds, and as a spell's
\* save-to-end condition.
RegistryArgs ==
  {NoArgs, WithDuration("rounds", 2),
   [NoArgs EXCEPT !.duration_type = <<"save_ends">>, !.save_dc = <<12>>,
                  !.save_ability = <<"wis">>, !.source_name = <<"Hold Person">>]}

NextRegistry ==
  \/ \E n \in {"stunned", "STUNNED"}, a \in RegistryArgs : AddCondition("Cleric", n, a)
  \/ \E n \in {"stunned", "STUNNED"} : RemoveCondition("Cleric", n)
  \/ AddCondition("Archer", "blinded", NoArgs)
  \/ \E r \in 0..MaxRound : SetCombatRound(r)

SpecRegistry == Init /\ [][NextRegistry]_vars

\* ------------------------------------------ specification: removal
\* Conditions applied to the Cleric by a named source; any of them, and the
\* incapacitated they imply, removed.
NextRemoval ==
  \/ \E n \in {"unconscious", "stunned", "prone"}, src \in {"Sleep", "Shove"} :
       AddCondition("Cleric", n, [NoArgs EXCEPT !.source_name = <<src>>])
  \/ \E n \in {"unconscious", "stunned", "prone", "incapacitated"} :
       RemoveCondition("Cleric", n)
  \/ AddCondition("Archer", "prone", NoArgs)
  \/ UpdateConditionDurations(1)

SpecRemoval == Init /\ [][NextRemoval]_vars

\* ------------------------------------------ resistance-aware damage
\* DamageResistanceSystem.calculate_damage for a creature with no immunity,
\* resistance or vulnerability (creatures/base.py sets none).
calculate_damage(creature, base_damage) == IF base_damage <= 0 THEN 0 ELSE base_damage

\* ConcentrationSystem.handle_damage
handle_damage(st, creature, damage_amount, roll) ==
  IF is_concentrating(st.conc, creature) /\ damage_amount > 0
  THEN check_concentration_save(st, creature, damage_amount, roll).st
  ELSE st

\* enhanced_take_damage (Creature.take_damage_with_resistance)
TakeDamageWithResistance(creature, amount, roll) ==
  LET final_damage == calculate_damage(creature, amount)
      hp == current_hp[creature] - final_damage
      s1 == IF final_damage > 0 THEN handle_damage(St, creature, final_damage, roll) ELSE St
      s2 == IF hp <= 0 THEN break_concentration(s1, creature, "Creature died").st ELSE s1
  IN /\ IF hp <= 0
        THEN /\ current_hp' = [current_hp EXCEPT ![creature] = 0]
             /\ is_alive' = [is_alive EXCEPT ![creature] = FALSE]
             /\ creature_economies' = cleanup_dead_creatures(creature_economies, is_alive')
        ELSE /\ current_hp' = [current_hp EXCEPT ![creature] = hp]
             /\ UNCHANGED <<is_alive, creature_economies>>
     /\ SetSt(s2)
     /\ op' = WithRoll(OpRec("take_damage_with_resistance", creature,
                             active_concentrations[creature].effect_name, amount, TRUE,
                             0, None, s2.log), roll)
     /\ UNCHANGED <<current_combat_round, now, movement_for_turn, readied_action, turnVars,
                    hist>>

\* ------------------------------------------ specification: damage
NextDamage ==
  \/ \E c \in {"Barbarian", "Cleric"}, n \in EffectNames : StartConcentration(c, n, 60, <<>>)
  \/ \E c \in {"Barbarian", "Cleric"} : EndConcentration(c)
  \/ \E c \in {"Barbarian", "Cleric"}, amount \in 0..2 : TakeDamage(c, amount)
  \/ \E c \in {"Barbarian", "Cleric"}, amount \in 0..2, roll \in {1, 20} :
       TakeDamageWithResistance(c, amount, roll)

SpecDamage == Init /\ [][NextDamage]_vars

\* ------------------------------------------ specification: sweeps
\* "blinded" for one round, for two rounds and for one minute.
SweepArgs == {WithDuration("rounds", 1), WithDuration("rounds", 2), WithDuration("minutes", 1)}

NextSweep ==
  \/ \E a \in SweepArgs : AddCondition("Cleric", "blinded", a)
  \/ \E c \in {"Barbarian", "Cleric"}, d \in Durations : StartConcentration(c, "Bless", d, <<>>)
  \/ TakeDamage("Barbarian", HP["Barbarian"])
  \/ Tick({60})
  \/ \E rp \in 0..1 : UpdateConditionDurations(rp)
  \/ UpdateConcentrations

SpecSweep == Init /\ [][NextSweep]_vars

\* ------------------------------------------ specification: cleanup hooks
NextHook ==
  \/ \E c \in {"Barbarian", "Cleric"}, e \in EffectNames, d \in Durations :
       StartConcentration(c, e, d, <<>>)
  \/ \E c \in {"Barbarian", "Cleric"}, reason \in {"Unknown", "Dispelled"} :
       BreakConcentration(c, reason)
  \/ \E c \in {"Barbarian", "Cleric"} : AddCondition(c, "prone", NoArgs)
  \/ Tick(1..MaxTime)

SpecHook == Init /\ [][NextHook]_vars

\* ------------------------------------------ specification: turns and effects
\* Conditions and an effect that a sweep or an end-of-turn save would end: one
\* round of "blinded", a save-to-end "paralyzed" with a DC, one minute of
\* "Bless".
NextTurnEffects ==
  \/ SetupAny(SequencerLayouts, {}, SequencerDice)
  \/ AdvanceTurn
  \/ AddCondition("Archer", "blinded", WithDuration("rounds", 1))
  \/ AddCondition("Archer", "paralyzed", WithSave(<<"save_ends">>, 12))
  \/ StartConcentration("Cleric", "Bless", 60, <<>>)
  \/ TakeDamage("Barbarian", 1)
  \/ Tick({60})

SpecTurnEffects == Init /\ [][NextTurnEffects]_vars

\* ------------------------------------------ condition checks on actions
\* Mutant: a stunned participant is refused every kind.
check_condition_prevents_action_mutant(conds, target, action_type) ==
  IF conds[target] = {} THEN [prevented |-> FALSE, reason |-> ""]
  ELSE IF /\ has_condition(conds, target, "incapacitated")
          /\ action_type \in {"action", "bonus_action", "reaction"}
       THEN [prevented |-> TRUE, reason |-> "is incapacitated and cannot take actions"]
       ELSE IF has_condition(conds, target, "stunned")
            THEN [prevented |-> TRUE, reason |-> "is stunned and cannot move"]
            ELSE IF /\ has_condition(conds, target, "unconscious")
                    /\ action_type \in {"action", "bonus_action", "reaction", "movement"}
                 THEN [prevented |-> TRUE, reason |-> "is unconscious and cannot act"]
                 ELSE [prevented |-> FALSE, reason |-> ""]

\* check_condition_prevents_action: [prevented, reason]
check_condition_prevents_action(conds, target, action_type) ==
  IF conds[target] = {} THEN [prevented |-> FALSE, reason |-> ""]
  ELSE IF /\ has_condition(conds, target, "incapacitated")
          /\ action_type \in {"action", "bonus_action", "reaction"}
       THEN [prevented |-> TRUE, reason |-> "is incapacitated and cannot take actions"]
       ELSE IF /\ has_condition(conds, target, "stunned")
               /\ action_type = "movement"
            THEN [prevented |-> TRUE, reason |-> "is stunned and cannot move"]
            ELSE IF /\ has_condition(conds, target, "unconscious")
                    /\ action_type \in {"action", "bonus_action", "reaction", "movement"}
                 THEN [prevented |-> TRUE, reason |-> "is unconscious and cannot act"]
                 ELSE [prevented |-> FALSE, reason |-> ""]

\* The call record keeps the kind asked about (x), the verdict (ret) and the
\* reason (res).
CheckConditionPreventsAction(target, action_type) ==
  LET r == check_condition_prevents_action(conditions, target, action_type)
  IN /\ op' = OpRec("check_condition_prevents_action", target, action_type, 0,
                    r.prevented, 0, r.reason, <<>>)
     /\ UNCHANGED <<bodyVars, condVars, now, concVars, econVars, turnVars, hist>>

\* ------------------------------------------ specification: condition checks
\* The kinds asked about: the four the function names and one it does not.
ActionKinds == {"action", "bonus_action", "reaction", "movement", "free_object_interaction"}

NextPrevents ==
  \/ \E n \in {"incapacitated", "stunned", "unconscious", "prone"} :
       AddCondition("Cleric", n, NoArgs)
  \/ \E n \in {"incapacitated", "stunned", "unconscious", "prone"} :
       RemoveCondition("Cleric", n)
  \/ \E c \in {"Archer", "Cleric"}, k \in ActionKinds : CheckConditionPreventsAction(c, k)

SpecPrevents == Init /\ [][NextPrevents]_vars

\* ------------------------------------------ specification: implication over time
\* add_condition with the defaults, the sweep and the end-of-turn saves; no
\* remove_condition.
NextImplied ==
  \/ \E n \in {"stunned", "unconscious", "incapacitated", "prone"} :
       AddCondition("Cleric", n, NoArgs)
  \/ \E rp \in 0..1 : UpdateConditionDurations(rp)
  \/ \E c \in {"Archer", "Cleric"}, d \in SaveDice :
       ProcessEndOfTurnSaves(c, [n \in ConditionNames |-> <<d, d>>])

SpecImplied == Init /\ [][NextImplied]_vars

\* ------------------------------------------ specification: saves without a DC
\* "stunned" and "paralyzed" with the defaults (SAVE_ENDS, a save ability, no
\* DC), "blinded" with a DC or for one round, removal, the sweep, the saves and
\* a minute passing.
NextNoDC ==
  \/ \E n \in {"stunned", "paralyzed"} : AddCondition("Cleric", n, NoArgs)
  \/ \E a \in {WithSave(<<>>, 12), WithDuration("rounds", 1)} :
       AddCondition("Cleric", "blinded", a)
  \/ \E n \in {"stunned", "paralyzed"} : RemoveCondition("Cleric", n)
  \/ UpdateConditionDurations(1)
  \/ \E d \in SaveDice : ProcessEndOfTurnSaves("Cleric", [n \in ConditionNames |-> <<d, d>>])
  \/ Tick({60})

SpecNoDC == Init /\ [][NextNoDC]_vars

\* ------------------------------------------------------- readied actions
\* The spells a CastSpellAction is readied with: "Ready Spell" has
\* concentration = True and duration "1 minute"; "Fire Bolt" has no
\* concentration attribute.
ReadySpells == {"Ready Spell", "Fire Bolt"}
spell_concentration(spell) == spell = "Ready Spell"

\* SpellManager.cast_spell (CastSpellAction.execute): [st, ret].  can_cast: the
\* caster is a spellcaster with the slot to spend and the targets are in the
\* spell's range.  spell.cast returns True.
cast_spell(st, caster, spell, can_cast) ==
  IF ~is_alive[caster] \/ ~can_cast
  THEN [st |-> st, ret |-> FALSE]
  ELSE IF spell_concentration(spell)
       THEN LET r == start_concentration(st, caster, spell, 60, <<1>>)
            IN IF r.ret THEN [st |-> r.st, ret |-> TRUE] ELSE [st |-> st, ret |-> FALSE]
       ELSE [st |-> st, ret |-> TRUE]

\* ReadyAction.execute: [st, ra, ret]
ready_execute(st, ra, performer, trigger_description, spell, target) ==
  LET r == IF spell_concentration(spell)
           THEN start_concentration(st, performer, "Readied " \o spell, 6, <<1>>)
           ELSE [st |-> st, ret |-> TRUE]
  IN IF ~r.ret
     THEN [st |-> st, ra |-> ra, ret |-> FALSE]
     ELSE [st |-> r.st,
           ra |-> [ra EXCEPT ![performer] = [trigger |-> trigger_description,
                                              action |-> spell, target |-> target]],
           ret |-> TRUE]

\* ActionExecutionSystem.execute_action(performer, action, REACTION, target) for
\* a CastSpellAction: [es, st, success, action_used]
execute_reaction(es, st, performer, spell, target, in_range, can_cast) ==
  IF ~validate_action(performer) \/ (target # None /\ ~in_range)
  THEN [es |-> es, st |-> st, success |-> FALSE, action_used |-> FALSE]
  ELSE LET c == consume_resource(es, performer, "reaction")
       IN IF ~c.ret
          THEN [es |-> c.es, st |-> st, success |-> FALSE, action_used |-> FALSE]
          ELSE LET b == cast_spell(st, performer, spell, can_cast)
               IN [es |-> c.es, st |-> b.st, success |-> b.ret, action_used |-> TRUE]

\* ReadyAction.trigger_readied_action: [es, st, ra, ret, action_used].  With the
\* three keys None, execute_action returns its refusal when validation fails
\* and raises on action_instance.name otherwise; the raise is caught (line 97)
\* before the readied action is cleared.
trigger_readied_action(es, st, ra, performer, trigger_met, in_range, can_cast) ==
  LET same == [es |-> es, st |-> st, ra |-> ra, ret |-> FALSE, action_used |-> FALSE]
      action == ra[performer].action
      target == ra[performer].target
  IN IF ra[performer] = EmptyDict \/ ~trigger_met THEN same
     ELSE IF action = None
     THEN IF validate_action(performer) THEN same
          ELSE [same EXCEPT !.ra[performer] = EmptyDict]
     ELSE LET x == execute_reaction(es, st, performer, action, target, in_range, can_cast)
              s2 == IF spell_concentration(action)
                    THEN start_concentration(x.st, performer, action, 60, <<1>>).st
                    ELSE x.st
          IN [es |-> x.es, st |-> s2, ra |-> [ra EXCEPT ![performer] = EmptyDict],
              ret |-> x.success, action_used |-> x.action_used]

\* The call record keeps the spell (x) and the target (res).
ReadyExecute(performer, trigger_description, spell, target) ==
  LET r == ready_execute(St, readied_action, performer, trigger_description, spell, target)
  IN /\ SetSt(r.st)
     /\ readied_action' = r.ra
     /\ op' = OpRec("ready_execute", performer, spell, 0, r.ret, 0, target, r.st.log)
     /\ UNCHANGED <<bodyVars, current_combat_round, now, creature_economies,
                    movement_for_turn, turnVars, hist>>

\* The call record keeps the readied action it found (x), trigger_met (arg),
\* the result's success (ret) and whether the reaction ran the action (n).
TriggerReadiedAction(performer, trigger_met, in_range, can_cast) ==
  LET r == trigger_readied_action(Es, St, readied_action, performer, trigger_met,
                                  in_range, can_cast)
  IN /\ WithinUses(r.es)
     /\ SetSt(r.st)
     /\ creature_economies' = r.es.econ
     /\ movement_for_turn' = r.es.mft
     /\ hist' = r.es.hist
     /\ readied_action' = r.ra
     /\ op' = OpRec("trigger_readied_action", performer, readied_action[performer].action,
                    IF trigger_met THEN 1 ELSE 0, r.ret, IF r.action_used THEN 1 ELSE 0,
                    None, r.st.log)
     /\ UNCHANGED <<bodyVars, current_combat_round, now, turnVars>>

\* ------------------------------------------ specification: readied spells
NextReady ==
  \/ \E spell \in ReadySpells, target \in {None, "Archer"} :
       ReadyExecute("Cleric", "Enemy comes within 30 feet", spell, target)
  \/ \E trigger_met \in BOOLEAN, in_range \in BOOLEAN, can_cast \in BOOLEAN :
       TriggerReadiedAction("Cleric", trigger_met, in_range, can_cast)
  \/ UseAction("Cleric", "reaction")
  \/ StartTurn("Cleric")
  \/ AddCondition("Cleric", "incapacitated", NoArgs)
  \/ TakeDamage("Cleric", HP["Cleric"])
  \/ Tick(1..MaxTime)

SpecReady == Init /\ [][NextReady]_vars

\* ------------------------------------------ specification: the cursor
\* InitiativeTracker.skip_dead_creatures, called on its own; the call record
\* keeps the cursor before and after.
SkipDeadCreatures ==
  LET tr == skip_dead_creatures(Tr)
  IN /\ tr.round <= MaxRound
     /\ SetTr(tr)
     /\ combat_state' = combat_state
     /\ op' = WithCursor(OpRec("skip_dead_creatures", None, None, 0, combat_active, 0,
                               None, <<>>),
                         <<current_turn_index, tr.index>>)
     /\ UNCHANGED <<bodyVars, condVars, now, concVars, econVars, hist>>

NextCursor ==
  \/ SetupAny(SequencerLayouts, {}, SequencerDice)
  \/ TrackerNextTurn
  \/ SkipDeadCreatures
  \/ AdvanceTurn
  \/ GetCurrentCreature
  \/ \E c \in Creatures : TakeDamage(c, HP[c])

SpecCursor == Init /\ [][NextCursor]_vars

\* ---------------------------------------------------------------- claims
\* C1: a caster holds at most one concentration effect (the tracker maps each
\* caster to one effect); when start_concentration succeeds for a caster who
\* already has an effect, the old effect is broken first: it is removed, its
\* cleanup hook runs once with the reason "New concentration effect", and
\* afterwards the caster's only effect is the newly started one, every other
\* caster's effect being untouched.
C1_SupersedeBreaksOld ==
  [][\A c \in Creatures :
       (/\ op'.name = "start_concentration" /\ op'.who = c /\ op'.ret
        /\ active_concentrations[c] # NoEffect)
       => /\ op'.log = << <<c, active_concentrations[c].effect_name,
                            "New concentration effect">> >>
          /\ active_concentrations'[c] = ConcentrationEffect(op'.x, op'.arg, <<>>)
          /\ \A d \in Creatures \ {c} :
               active_concentrations'[d] = active_concentrations[d]]_vars

C1_Witness ==
  /\ op.name = "start_concentration" /\ op.ret
  /\ Len(op.log) = 1
  /\ op.log[1][2] # op.x
  /\ active_concentrations[op.who].effect_name = op.x

C7_NeverAutoExpires ==
  [][op'.name = "update_condition_durations" =>
       \A c \in Creatures, n \in ConditionNames :
         creature_conditions[c][n].duration_type
             \in {"save_ends", "permanent", "until_dispelled"}
         => /\ creature_conditions'[c][n] = creature_conditions[c][n]
            /\ (n \in conditions[c] => n \in conditions'[c])]_vars

C7_Witness ==
  /\ op.name = "update_condition_durations" /\ op.arg > 0 /\ op.n > 0
  /\ \E c \in Creatures, n \in ConditionNames :
       /\ creature_conditions[c][n].duration_type = "save_ends"
       /\ n \in conditions[c]
       /\ creature_conditions[c][n].applied_round + 2 <= current_combat_round
       /\ creature_conditions[c][n].applied_time < now

\* C8: an instance applied at registry round R with duration kind ROUNDS and
\* value N, still stored when update_condition_durations runs, is kept by a
\* sweep whose round is at most R+N-1 and is gone (registry and mirror) after a
\* sweep whose round is at least R+N+1.
C8_RoundsExpiry ==
  [][op'.name = "update_condition_durations" =>
       \A c \in Creatures, n \in ConditionNames :
         LET data == creature_conditions[c][n]
         IN data.duration_type = "rounds" =>
              /\ (current_combat_round' <= data.applied_round + data.duration_value - 1
                  => /\ creature_conditions'[c][n] = data
                     /\ n \in conditions'[c])
              /\ (current_combat_round' >= data.applied_round + data.duration_value + 1
                  => /\ creature_conditions'[c][n] = NoCondition
                     /\ n \notin conditions'[c])]_vars

C8_Witness ==
  /\ op.name = "update_condition_durations" /\ op.n > 0
  /\ \E c \in Creatures, n \in ConditionNames :
       LET data == creature_conditions[c][n]
       IN /\ data.duration_type = "rounds"
          /\ current_combat_round = data.applied_round + data.duration_value - 1
          /\ n \in conditions[c]
  /\ \E c \in Creatures : "blinded" \notin conditions[c]

\* C9: right after add_condition(p, "unconscious") returns, p has incapacitated
\* and prone (and unconscious); right after add_condition(p, "stunned") returns,
\* p has incapacitated (and stunned).
C9_Cascade ==
  /\ (op.name = "add_condition" /\ op.x = "unconscious")
     => {"unconscious", "incapacitated", "prone"} \subseteq conditions[op.who]
  /\ (op.name = "add_condition" /\ op.x = "stunned")
     => {"stunned", "incapacitated"} \subseteq conditions[op.who]

C9_Witness ==
  /\ op.name = "add_condition" /\ op.x = "unconscious"
  /\ has_condition(conditions, op.who, "incapacitated")
  /\ has_condition(conditions, op.who, "prone")
  /\ creature_conditions[op.who]["prone"].duration_type = "permanent"
  /\ creature_conditions[op.who]["incapacitated"].duration_type = "rounds"

\* The used flag of a resource in a creature's economy.
Flag(c, r) ==
  CASE r = "action" -> creature_economies[c].action_used
    [] r = "bonus_action" -> creature_economies[c].bonus_action_used
    [] r = "reaction" -> creature_economies[c].reaction_used
    [] OTHER -> creature_economies[c].free_object_interaction_used

\* C2 as stated: between one reset_turn(P) and the next, at most one use of a
\* resource returns true, however it is invoked.
C2_Original ==
  \A c \in Creatures, r \in Resources : hist[c][r].uses <= 1

\* C2 amended: between one reset_turn(P) and the next, at most one successful
\* use of a resource is outstanding: the successful uses exceed the refunds
\* (execute_action gives the resource back when the action body raises) by at
\* most one, exactly when the resource's used flag is set, so a use succeeds
\* again only after the previous one was refunded.
C2_AtMostOneUnrefundedUse ==
  \A c \in Creatures, r \in Resources :
    /\ hist[c][r].refunds <= hist[c][r].uses
    /\ hist[c][r].uses - hist[c][r].refunds <= 1
    /\ creature_economies[c] # NoEconomy
       => (Flag(c, r) <=> hist[c][r].uses - hist[c][r].refunds = 1)

C2_Witness ==
  \E c \in Creatures :
    /\ hist[c]["action"].uses = 2 /\ hist[c]["action"].refunds = 1
    /\ creature_economies[c] # NoEconomy
    /\ creature_economies[c].action_used
    /\ op.name = "use_action" /\ op.ret

\* C3 (the claim as stated; the code violates it): whenever advance_turn
\* returns with the encounter still active, the new current participant is
\* alive, and no turn is started for a dead participant.
C3_CurrentIsAlive ==
  (op.name = "advance_turn" /\ combat_active) =>
     /\ get_current_creature(Tr) # None
     /\ is_alive[get_current_creature(Tr)]
     /\ (op.ret => is_alive[op.res])

\* C4: when advance_turn is called with at most one team having a living
\* member, the encounter ends, advance_turn returns none and, if the encounter
\* was active, the declared winner is the single living team, or no winner when
\* there is none; whenever advance_turn returns with the encounter active, at
\* least two teams have a living member.
C4_VictoryCondition ==
  [][op'.name = "advance_turn" =>
       LET living == LivingTeams(combat_state, is_alive)
       IN /\ Cardinality(living) <= 1 =>
               /\ ~combat_active'
               /\ op'.res = None
               /\ combat_active =>
                    op'.x = IF living = {} THEN "no winner"
                            ELSE CHOOSE t \in living : TRUE
          /\ combat_active' =>
               Cardinality(LivingTeams(combat_state', is_alive')) >= 2]_vars

\* An active encounter with one living team of two living members was advanced
\* and ended with that team declared the winner.
C4_Witness ==
  /\ op.name = "advance_turn"
  /\ op.x = "heroes"
  /\ op.res = None
  /\ ~combat_active
  /\ is_alive["Archer"] /\ is_alive["Cleric"] /\ ~is_alive["Barbarian"]

\* Archer and Barbarian are both in the turn order with equal totals.
ArcherBarbarianTie ==
  /\ op.name = "setup_combat"
  /\ \E i, j \in 1..Len(turn_order) :
       /\ turn_order[i].creature = "Archer"
       /\ turn_order[j].creature = "Barbarian"
       /\ turn_order[i].initiative_count = turn_order[j].initiative_count

\* C5 (the claim as stated; the code violates it): on equal totals the turn
\* order places "Archer" before "Barbarian".
C5_Original ==
  ArcherBarbarianTie =>
    \A i, j \in 1..Len(turn_order) :
      (turn_order[i].creature = "Archer" /\ turn_order[j].creature = "Barbarian")
        => i < j

\* C5 (amended): on equal totals the turn order produced at encounter start
\* places "Barbarian" before "Archer": the name is compared in descending order.
C5_BarbarianBeforeArcher ==
  ArcherBarbarianTie =>
    \A i, j \in 1..Len(turn_order) :
      (turn_order[i].creature = "Archer" /\ turn_order[j].creature = "Barbarian")
        => j < i

\* A three-way tie: Cleric throws 12, Archer and Barbarian throw 10.
C5_Witness ==
  /\ ArcherBarbarianTie
  /\ \A i \in 1..Len(turn_order) : turn_order[i].initiative_count = 12
  /\ Len(turn_order) = 3

\* The total the dice give the i-th participant: log[i] = <<r1, r2, surprised>>.
InitiativeTotal(ps, log, i) ==
  (IF log[i][3] THEN Min(log[i][1], log[i][2]) ELSE log[i][1]) + DexMod[ps[i]]

\* C6: the turn order computed at encounter start is a permutation of the
\* participants, non-increasing in initiative total (the d20, or the lower of
\* two for a surprised participant, plus the Dex modifier), and is the one order
\* the participants and the dice determine, equal totals included: they are in
\* descending order of name.
C6_OrderDetermined ==
  op.name = "setup_combat" =>
    LET ps == AllParticipants(combat_state.teams)
        n == Len(ps)
    IN /\ Len(turn_order) = n
       /\ \E perm \in Permutations(1..n) :
            /\ \A i \in 1..n :
                 /\ turn_order[i].creature = ps[perm[i]]
                 /\ turn_order[i].initiative_count =
                      InitiativeTotal(ps, op.log, perm[i])
                 /\ turn_order[i].was_surprised = op.log[perm[i]][3]
            /\ \A i, j \in 1..n : i < j =>
                 LET a == turn_order[i]
                     b == turn_order[j]
                 IN \/ a.initiative_count > b.initiative_count
                    \/ /\ a.initiative_count = b.initiative_count
                       /\ NameOrd(a.creature) > NameOrd(b.creature)

\* A surprised Cleric whose two dice differ, and Archer and Barbarian tied.
C6_Witness ==
  /\ ArcherBarbarianTie
  /\ \E i \in 1..Len(op.log) : op.log[i][3] /\ op.log[i][1] # op.log[i][2]
  /\ \E i, j \in 1..Len(turn_order) :
       turn_order[i].initiative_count # turn_order[j].initiative_count

C12_RejectsWhenUnable ==
  [][\A c \in Creatures :
       (/\ op'.name = "start_concentration" /\ op'.who = c
        /\ \/ "incapacitated" \in conditions[c]
           \/ "unconscious" \in conditions[c]
           \/ ~is_alive[c])
       => /\ ~op'.ret
          /\ active_concentrations' = active_concentrations]_vars

\* C13: whenever add_condition adds a condition of the breaking set
\* {incapacitated, unconscious, dead, stunned, paralyzed} to a participant, as
\* the named condition or as one it implies, the participant has no active
\* concentration effect when add_condition returns; adding a condition outside
\* the set leaves the tracker unchanged.
C13_BreakingConditions ==
  [][\A c \in Creatures :
       (op'.name = "add_condition" /\ op'.who = c)
       => LET added == (conditions'[c] \ conditions[c]) \cup {op'.x}
          IN /\ added \cap breaking_conditions # {} => active_concentrations'[c] = NoEffect
             /\ added \cap breaking_conditions = {} =>
                  active_concentrations' = active_concentrations]_vars

\* A concentrating caster became unconscious: the effect was broken once.
C13_Witness ==
  /\ op.name = "add_condition" /\ op.x = "unconscious"
  /\ Len(op.log) = 1
  /\ op.log[1][1] = op.who
  /\ active_concentrations[op.who] = NoEffect
  /\ {"unconscious", "incapacitated", "prone"} \subseteq conditions[op.who]

\* The used flag of a turn resource.
UsedFlag(resource) ==
  CASE resource = "action" -> "action_used"
    [] resource = "bonus_action" -> "bonus_action_used"
    [] OTHER -> "reaction_used"

\* C14 (the claim as stated; the code violates it): using a turn resource
\* (action, bonus action, reaction) returns false and leaves the participant's
\* economy unchanged whenever the participant is dead, the resource was already
\* used this turn, or the participant is incapacitated; otherwise it sets
\* exactly that resource's used flag and returns true.
C14_UseResource ==
  [][\A c \in Creatures :
       (/\ op'.name = "use_action" /\ op'.who = c
        /\ op'.x \in {"action", "bonus_action", "reaction"})
       => LET before == get_economy(Es, c).econ[c]
              blocked == \/ ~is_alive[c]
                         \/ before[UsedFlag(op'.x)]
                         \/ "incapacitated" \in conditions[c]
          IN IF blocked
             THEN ~op'.ret /\ creature_economies'[c] = before
             ELSE /\ op'.ret
                  /\ creature_economies'[c] = [before EXCEPT ![UsedFlag(op'.x)] = TRUE]]_vars

\* In every state 0 <= movement_used <= movement budget.
MovementWithinBudget ==
  \A c \in Creatures :
    creature_economies[c] # NoEconomy =>
      /\ 0 <= creature_economies[c].movement_used
      /\ creature_economies[c].movement_used <= movement_for_turn[c]

\* C15 (the claim as stated; the code violates it): use_movement(distance)
\* returns false and changes nothing when movement_used + distance exceeds the
\* budget, and otherwise adds distance to movement_used; in every reachable
\* state 0 <= movement_used <= budget.
C15_Original ==
  /\ []MovementWithinBudget
  /\ [][\A c \in Creatures :
          (op'.name = "move" /\ op'.who = c)
          => LET before == get_economy(Es, c)
                 e == before.econ[c]
             IN IF e.movement_used + op'.arg > before.mft[c]
                THEN /\ ~op'.ret
                     /\ creature_economies'[c] = e
                     /\ movement_for_turn'[c] = before.mft[c]
                ELSE /\ op'.ret
                     /\ creature_economies'[c] = [e EXCEPT !.movement_used = @ + op'.arg]
                     /\ movement_for_turn'[c] = before.mft[c]]_vars

\* C15 (amended): use_movement(distance) returns false and changes nothing when
\* movement_used + distance exceeds the budget or the participant is dead, and
\* otherwise adds distance to movement_used; in every reachable state
\* 0 <= movement_used <= budget.
C15_MovementBudget ==
  /\ []MovementWithinBudget
  /\ [][\A c \in Creatures :
          (op'.name = "move" /\ op'.who = c)
          => LET before == get_economy(Es, c)
                 e == before.econ[c]
             IN IF e.movement_used + op'.arg > before.mft[c] \/ ~is_alive[c]
                THEN /\ ~op'.ret
                     /\ creature_economies'[c] = e
                     /\ movement_for_turn'[c] = before.mft[c]
                ELSE /\ op'.ret
                     /\ creature_economies'[c] = [e EXCEPT !.movement_used = @ + op'.arg]
                     /\ movement_for_turn'[c] = before.mft[c]]_vars

\* After a Dash the whole doubled budget is spent and one more foot is refused.
C15_Witness ==
  /\ op.name = "move" /\ ~op.ret /\ op.arg = 1
  /\ is_alive[op.who]
  /\ movement_for_turn[op.who] = 2 * Speed[op.who]
  /\ creature_economies[op.who].movement_used = movement_for_turn[op.who]

\* C16: reset_turn puts the participant's economy in the fresh state: action,
\* bonus action, reaction and free-interaction flags unused, movement_used = 0
\* and the movement budget equal to the participant's speed, whatever the state
\* before (a Dash bonus of the turn before does not carry over).
C16_ResetTurnFresh ==
  op.name = "start_turn" =>
    /\ creature_economies[op.who] =
         [action_used |-> FALSE, bonus_action_used |-> FALSE, reaction_used |-> FALSE,
          movement_used |-> 0, free_object_interaction_used |-> FALSE]
    /\ movement_for_turn[op.who] = Speed[op.who]

\* The turn was started with a Dash bonus still in the budget.
C16_Witness ==
  /\ op.name = "start_turn"
  /\ op.arg = 2 * Speed[op.who]
  /\ movement_for_turn[op.who] = Speed[op.who]
  /\ creature_economies[op.who].movement_used = 0
  /\ ~creature_economies[op.who].action_used

\* The state reset_turn leaves.
FreshEconomy ==
  [action_used |-> FALSE, bonus_action_used |-> FALSE, reaction_used |-> FALSE,
   movement_used |-> 0, free_object_interaction_used |-> FALSE]

C18_RegistriesCleared ==
  (\/ op.name = "end_combat"
   \/ op.name = "advance_turn" /\ op.x # None)
  => /\ \A c \in Creatures :
          /\ \A n \in ConditionNames : creature_conditions[c][n] = NoCondition
          /\ creature_economies[c] = NoEconomy
          /\ active_concentrations[c] = NoEffect
     /\ turn_order = <<>>

\* C19: end_combat forces termination from any state: after it returns the
\* sequencer is not active and get_current_creature returns none, whether the
\* encounter was active, already ended or never started when it was called.
C19_EndCombatTerminates ==
  op.name = "end_combat" =>
    /\ ~combat_active
    /\ get_current_creature(Tr) = None
    /\ ~combat_state.present

\* end_combat was called on an active encounter in which a participant had died.
C19_Witness ==
  /\ op.name = "end_combat" /\ op.ret
  /\ ~combat_active
  /\ turn_order = <<>>
  /\ \E c \in Creatures : ~is_alive[c]

\* C20: when the sequencer is not active, next_turn, advance_turn and
\* get_current_creature return none and leave the turn order, the cursor index,
\* the round number and the registries unchanged.
C20_InactiveNoOp ==
  [][(/\ op'.name \in {"advance_turn", "next_turn", "get_current_creature"}
      /\ ~combat_active)
     => /\ op'.res = None
        /\ UNCHANGED <<turnVars, condVars, concVars, econVars, bodyVars>>]_vars

\* advance_turn on an ended encounter, with an economy entry of a dead creature
\* and a tracked condition still in the registries.
C20_Witness ==
  /\ op.name = "advance_turn" /\ op.who = None /\ op.res = None
  /\ ~combat_active
  /\ ~is_alive["Barbarian"] /\ creature_economies["Barbarian"] # NoEconomy
  /\ "prone" \in conditions["Archer"]

\* C21 (the claim as stated; the code violates it): once the sequencer has
\* ended, no operation makes it active again: the step after an end_combat that
\* ended an active encounter never activates it.
C21_Original ==
  [][(op.name = "end_combat" /\ op.ret) => ~combat_active']_vars

\* C21 (amended): ENDED is not terminal.  The only operation that makes an
\* inactive sequencer active is setup_combat (start_combat), which also does so
\* on an instance that has ended, and it starts a new encounter: round 1,
\* index 0, a new turn order over the participants given.
C21_OnlySetupActivates ==
  [][(~combat_active /\ combat_active')
     => /\ op'.name = "setup_combat"
        /\ round_number' = 1
        /\ current_turn_index' = 0
        /\ Len(turn_order') = Len(AllParticipants(combat_state'.teams))]_vars

\* setup_combat right after the end_combat that ended an encounter.
C21_Witness ==
  /\ op.name = "setup_combat" /\ op.x = "end_combat"
  /\ combat_active
  /\ round_number = 1 /\ current_turn_index = 0
  /\ Len(turn_order) = 3

\* C22: process_end_of_turn_saves(p) rolls one saving throw for each SAVE_ENDS
\* instance of p that has a save ability and a save DC, removes exactly the
\* instances whose save succeeded, leaves every other instance of p and every
\* other participant unchanged, and returns the number of conditions removed.
C22_EndOfTurnSaves ==
  [][op'.name = "process_end_of_turn_saves" =>
     LET p == op'.who
         due == {n \in ConditionNames :
                   /\ creature_conditions[p][n].duration_type = "save_ends"
                   /\ creature_conditions[p][n].save_ability # None
                   /\ creature_conditions[p][n].save_dc # NoDC}
         die(n) == IF "prone" \in conditions[p]
                   THEN Min(op'.roll[n][1], op'.roll[n][2]) ELSE op'.roll[n][1]
         saved == {n \in due : die(n) + ConMod[p] >= creature_conditions[p][n].save_dc}
         removed == {n \in ConditionNames :
                       /\ creature_conditions[p][n] # NoCondition
                       /\ creature_conditions'[p][n] = NoCondition}
     IN /\ Len(op'.log) = Cardinality(due)
        /\ {op'.log[i] : i \in 1..Len(op'.log)} = due
        /\ removed = saved
        /\ conditions'[p] = conditions[p] \ saved
        /\ \A n \in ConditionNames \ saved :
             creature_conditions'[p][n] = creature_conditions[p][n]
        /\ \A q \in Creatures \ {p} :
             /\ creature_conditions'[q] = creature_conditions[q]
             /\ conditions'[q] = conditions[q]
        /\ op'.n = Cardinality(removed)
        /\ UNCHANGED <<concVars, current_combat_round, bodyVars>>]_vars

\* Two saves were rolled for the prone Cleric: the one against paralyzed
\* succeeded and removed it, the one against blinded failed; the grappled
\* instance (no save ability) and the Archer's blinded instance were not rolled
\* for.
C22_Witness ==
  /\ op.name = "process_end_of_turn_saves" /\ op.who = "Cleric"
  /\ Len(op.log) = 2 /\ op.n = 1
  /\ conditions["Cleric"] = {"blinded", "grappled", "prone"}
  /\ creature_conditions["Cleric"]["grappled"].save_dc = 12
  /\ creature_conditions["Cleric"]["paralyzed"] = NoCondition
  /\ creature_conditions["Archer"]["blinded"].save_dc = 12

\* The live instances of participant p stored in cc under a spelling of name n.
Instances(cc, p, n) ==
  {k \in DOMAIN cc[p] : Lower(k) = n /\ cc[p][k] # NoCondition}

\* C23: the registry holds at most one live instance per participant and
\* condition name, names compared case-insensitively, and add_condition for a
\* name the participant already holds overwrites the stored instance (duration
\* kind and value, save DC and ability, source, applied round) with the data of
\* the new call.
C23_OneInstanceOverwritten ==
  /\ [](\A p \in Creatures, n \in ConditionNames : Cardinality(Instances(creature_conditions, p, n)) <= 1)
  /\ [][op'.name = "add_condition" =>
        LET p == op'.who
            n == Lower(op'.raw)
            a == op'.args
            defaults == condition_defaults(n)
            stored == creature_conditions'[p][n]
        IN /\ Instances(creature_conditions', p, n) = {n}
           /\ stored.duration_type =
                Get(a.duration_type, Get(defaults.duration_type, "permanent"))
           /\ stored.duration_value =
                Get(a.duration_value, Get(defaults.duration_value, 0))
           /\ stored.save_dc = Get(a.save_dc, NoDC)
           /\ stored.save_ability = Get(a.save_ability, Get(defaults.save_ability, None))
           /\ stored.source_name = Get(a.source_name, "Unknown")
           /\ stored.applied_round = current_combat_round]_vars

\* "STUNNED" was added in round 2 as a spell's save-to-end condition to a
\* participant who held "stunned" since round 0: one instance, the new one.
C23_Witness ==
  /\ op.name = "add_condition" /\ op.raw = "STUNNED" /\ op.who = "Cleric"
  /\ op.log = <<>>
  /\ "incapacitated" \in conditions["Cleric"]
  /\ creature_conditions["Cleric"]["incapacitated"].applied_round = 0
  /\ creature_conditions["Cleric"]["stunned"].applied_round = 2
  /\ creature_conditions["Cleric"]["stunned"].save_dc = 12
  /\ creature_conditions["Cleric"]["stunned"].source_name = "Hold Person"

\* C24: remove_condition(p, name) on a held condition deletes its single
\* instance, however many sources applied it, so that has_condition(p, name) is
\* false afterwards, and returns true; no other condition is removed (the
\* conditions implied by unconscious or stunned stay); on a condition p does
\* not hold it returns false and changes nothing.
C24_RemoveCondition ==
  [][op'.name = "remove_condition" =>
     LET p == op'.who
         n == op'.x
     IN /\ \A q \in Creatures \ {p} :
             /\ creature_conditions'[q] = creature_conditions[q]
             /\ conditions'[q] = conditions[q]
        /\ UNCHANGED <<concVars, current_combat_round>>
        /\ IF has_condition(conditions, p, n)
           THEN /\ op'.ret
                /\ ~has_condition(conditions', p, n)
                /\ creature_conditions'[p][n] = NoCondition
                /\ conditions'[p] = conditions[p] \ {n}
                /\ \A m \in ConditionNames \ {n} :
                     creature_conditions'[p][m] = creature_conditions[p][m]
           ELSE /\ ~op'.ret
                /\ creature_conditions'[p] = creature_conditions[p]
                /\ conditions'[p] = conditions[p]]_vars

\* unconscious was applied in round 0 (its implied prone dates from then) and
\* applied again by "Shove" in round 1; the one instance was removed, and the
\* implied incapacitated and prone are still held.
C24_Witness ==
  /\ op.name = "remove_condition" /\ op.x = "unconscious" /\ op.ret
  /\ op.removed.applied_round = 1 /\ op.removed.source_name = "Shove"
  /\ conditions["Cleric"] = {"incapacitated", "prone"}
  /\ creature_conditions["Cleric"]["prone"].source_name = "Unknown"
  /\ creature_conditions["Cleric"]["prone"].applied_round = 0
  /\ creature_conditions["Cleric"]["unconscious"] = NoCondition
  /\ "prone" \in conditions["Archer"]

\* C25: while the encounter is active the round number never decreases; it
\* increases, by exactly one, only in a call in which the cursor goes past the
\* end of the order and back to 0, and one advance_turn raises it by at most
\* one. (setup_combat begins another encounter, with its own round 1.)
C25_RoundMonotone ==
  [][(combat_active /\ combat_active' /\ op'.name # "setup_combat") =>
       IF op'.name \in {"advance_turn", "next_turn"}
       THEN LET c == op'.cursor
                wraps == {i \in 1..(Len(c) - 1) : c[i + 1] < c[i]}
            IN /\ \A i \in wraps : c[i + 1] = 0
               /\ round_number' = round_number + Cardinality(wraps)
               /\ Cardinality(wraps) <= 1
       ELSE round_number' = round_number]_vars

\* advance_turn found the current participant, the last of the order, dead:
\* skipping it took the cursor back to 0 and opened round 2, and next_turn moved
\* on to index 1 without opening another round.
C25_Witness ==
  /\ op.name = "advance_turn" /\ combat_active
  /\ op.cursor = <<2, 0, 1>>
  /\ round_number = 2 /\ current_turn_index = 1
  /\ ~is_alive[op.who]

\* C26 (the claim as stated; the code violates it): after a damage operation,
\* Creature.take_damage or take_damage_with_resistance, has reduced a caster to
\* 0 HP, that caster has no active concentration effect.
C26_DeadCasterHasNoEffect ==
  (/\ op.name \in {"take_damage", "take_damage_with_resistance"}
   /\ current_hp[op.who] = 0)
  => active_concentrations[op.who] = NoEffect

C28_SweepLeavesNoIncapable ==
  op.name = "update_concentrations" =>
    \A c \in Creatures :
      active_concentrations[c] # NoEffect =>
        /\ ~is_expired(active_concentrations[c])
        /\ is_alive[c]
        /\ "incapacitated" \notin conditions[c]
        /\ "unconscious" \notin conditions[c]

\* C29: break_concentration on a concentrating caster removes the effect and
\* returns true, also when the effect's cleanup hook raises (the failure does
\* not propagate and the effect stays removed); on a caster with no effect it
\* returns false and changes nothing.
C29_BreakConcentration ==
  [][op'.name = "break_concentration" =>
     LET c == op'.who
     IN /\ \A d \in Creatures \ {c} : active_concentrations'[d] = active_concentrations[d]
        /\ UNCHANGED <<condVars, bodyVars, now>>
        /\ IF active_concentrations[c] # NoEffect
           THEN /\ op'.ret
                /\ active_concentrations'[c] = NoEffect
           ELSE /\ ~op'.ret
                /\ active_concentrations'[c] = active_concentrations[c]
                /\ op'.log = <<>>]_vars

\* break_concentration was called on a caster whose cleanup hook raises: it
\* returned true, the effect is gone, the other caster's effect is kept.
C29_Witness ==
  /\ op.name = "break_concentration" /\ op.who \in HookRaises
  /\ op.x = "Bless" /\ op.ret
  /\ op.log = << <<op.who, "Bless", "Dispelled">> >>
  /\ active_concentrations[op.who] = NoEffect
  /\ active_concentrations["Cleric"] # NoEffect

\* C30: advance_turn has no side effect on conditions or concentration while
\* the encounter continues: it runs no end-of-turn save, expires no condition,
\* leaves the registry's round counter alone and adds or removes no condition
\* instance and no concentration effect.
C30_AdvanceTurnLeavesEffects ==
  [][(op'.name = "advance_turn" /\ combat_active /\ combat_active')
     => UNCHANGED <<conditions, creature_conditions, current_combat_round,
                    active_concentrations>>]_vars

\* advance_turn opened round 2 after a minute: the registry still counts round
\* 0, the Archer's one-round "blinded" and save-to-end "paralyzed" and the
\* Cleric's one-minute "Bless" are all still there.
C30_Witness ==
  /\ op.name = "advance_turn" /\ combat_active
  /\ round_number = 2 /\ current_combat_round = 0 /\ now = 60
  /\ creature_conditions["Archer"]["blinded"].duration_type = "rounds"
  /\ creature_conditions["Archer"]["blinded"].applied_round = 0
  /\ creature_conditions["Archer"]["paralyzed"].save_dc = 12
  /\ active_concentrations["Cleric"] # NoEffect
  /\ active_concentrations["Cleric"].max_end_time = 60

C32_NoLivingParticipantSkipped ==
  [][(op'.name = "advance_turn" /\ combat_active /\ combat_active')
     => LET len == Len(turn_order)
            i == current_turn_index
            j == current_turn_index'
            steps == IF j = i THEN len ELSE (j - i) % len
        IN \A k \in 0..(len - 1) :
             (k # i /\ (k - i) % len < steps) => ~is_alive[turn_order[k + 1].creature]]_vars

\* C33: when add_condition applies stunned or unconscious to a participant
\* that already holds an implied condition (incapacitated, prone), the stored
\* instance of that implied condition is left as it was (duration kind and
\* value, save data, source, applied round) and the call succeeds.
C33_ImpliedLeftUnchanged ==
  [][(op'.name = "add_condition" /\ op'.x \in {"stunned", "unconscious"})
     => LET p == op'.who
            implied == IF op'.x = "stunned" THEN {"incapacitated"}
                       ELSE {"incapacitated", "prone"}
        IN /\ op'.ret
           /\ \A m \in implied :
                m \in conditions[p] =>
                  /\ creature_conditions'[p][m] = creature_conditions[p][m]
                  /\ m \in conditions'[p]]_vars

\* unconscious was added in round 1 to a participant made prone by "Shove" in
\* round 0: the prone instance is still the one from "Shove".
C33_Witness ==
  /\ op.name = "add_condition" /\ op.x = "unconscious" /\ op.who = "Cleric"
  /\ creature_conditions["Cleric"]["unconscious"].applied_round = 1
  /\ creature_conditions["Cleric"]["prone"].source_name = "Shove"
  /\ creature_conditions["Cleric"]["prone"].applied_round = 0
  /\ creature_conditions["Cleric"]["incapacitated"].applied_round = 1

\* C34: the turn order is fixed at encounter start: while the encounter is
\* active no advance, skip or query call and no participant's death reorders
\* the entries, changes an initiative total or adds or drops an entry.
\* (setup_combat starts another encounter.)
C34_TurnOrderFixed ==
  [][(combat_active /\ combat_active' /\ op'.name # "setup_combat")
     => turn_order' = turn_order]_vars

\* advance_turn in round 2 of an encounter in which a participant has died:
\* the three entries are there, in descending initiative.
C34_Witness ==
  /\ op.name = "advance_turn" /\ combat_active /\ round_number = 2
  /\ Len(turn_order) = 3
  /\ \E i \in 1..3 : ~is_alive[turn_order[i].creature]
  /\ \A i \in 1..2 : turn_order[i].initiative_count >= turn_order[i + 1].initiative_count

\* C35 (the claim as stated; the code violates it): implication is a state
\* invariant: in every state reached through add_condition with the defaults,
\* update_condition_durations and process_end_of_turn_saves, a participant
\* that has stunned has incapacitated, and one that has unconscious has
\* incapacitated and prone.
C35_ImplicationInvariant ==
  \A p \in Creatures :
    /\ "stunned" \in conditions[p] => "incapacitated" \in conditions[p]
    /\ "unconscious" \in conditions[p] => {"incapacitated", "prone"} \subseteq conditions[p]

\* C36 (the claim as stated; the code violates it): the participant's set of
\* condition names and the registry agree in every reachable state: n is in
\* p.conditions exactly when the registry stores an instance for (p, n), after
\* any sequence of add_condition, remove_condition, update_condition_durations,
\* process_end_of_turn_saves and cleanup_creature.
C36_MirrorAgreesWithRegistry ==
  \A p \in Creatures, n \in ConditionNames :
    n \in conditions[p] <=> creature_conditions[p][n] # NoCondition

ResourceUsed(economy, r) ==
  CASE r = "action" -> economy.action_used
    [] r = "bonus_action" -> economy.bonus_action_used
    [] r = "reaction" -> economy.reaction_used
    [] OTHER -> FALSE

\* The economy get_economy hands out for a participant: a participant without
\* an entry gets a fresh one.
EconomyOf(economies, c) ==
  IF economies[c] = NoEconomy THEN FreshEconomy ELSE economies[c]

\* C38: execute_action leaves the performer's action economy as it found it
\* whenever the action is not carried out (validation fails, the range check
\* fails, the resource is already used, or the action body raises and the
\* consumed resource is refunded); the resource's used flag is set by the call
\* only when the action body ran to completion, and then it is set.
C38_ExecuteActionRestores ==
  [][op'.name = "execute_action" =>
       \A c \in Creatures, r \in ActionTypes :
         (op'.who = c /\ op'.x = r) =>
           /\ (\/ ~validate_action(c)
               \/ ResourceUsed(EconomyOf(creature_economies, c), r)
               \/ op'.res = "Raises") => op'.n = 0
           /\ op'.n = 0 =>
                /\ EconomyOf(creature_economies', c) = EconomyOf(creature_economies, c)
                /\ movement_for_turn'[c] = movement_for_turn[c]
                /\ ~op'.ret
           /\ (/\ ResourceUsed(EconomyOf(creature_economies', c), r)
               /\ ~ResourceUsed(EconomyOf(creature_economies, c), r))
              => (op'.n = 1 /\ op'.res # "Raises")
           /\ (op'.n = 1 /\ r # "free_action")
              => ResourceUsed(EconomyOf(creature_economies', c), r)]_vars

\* The Cleric's action raised after its bonus action was used: the action was
\* refunded and is unused, the bonus action is still used.
C38_Witness ==
  /\ op.name = "execute_action" /\ op.who = "Cleric" /\ op.x = "action"
  /\ op.res = "Raises" /\ op.n = 0 /\ ~op.ret
  /\ hist["Cleric"]["action"].refunds = 1
  /\ ~creature_economies["Cleric"].action_used
  /\ creature_economies["Cleric"].bonus_action_used

\* C39 (the claim as stated; the code violates it): ReadyAction.execute for a
\* concentration spell stores the readied action only if concentration on the
\* readied spell was started, and otherwise returns false and leaves
\* readied_action as it was; when trigger_readied_action fires on a readied
\* concentration spell, the caster ends up concentrating on the actual spell
\* only if the readied action was executed as a reaction, and the readied
\* action is cleared in either case.
C39_ReadiedSpellHandoff ==
  [][\A p \in Creatures, spell \in ReadySpells :
       /\ (/\ op'.name = "ready_execute" /\ op'.who = p /\ op'.x = spell
           /\ spell_concentration(spell))
          => IF op'.ret
             THEN /\ active_concentrations'[p].effect_name = "Readied " \o spell
                  /\ readied_action'[p].action = spell
             ELSE /\ readied_action'[p] = readied_action[p]
                  /\ active_concentrations'[p] = active_concentrations[p]
       /\ (/\ op'.name = "trigger_readied_action" /\ op'.who = p /\ op'.arg = 1
           /\ readied_action[p].action = spell /\ spell_concentration(spell))
          => /\ readied_action'[p] = EmptyDict
             /\ active_concentrations'[p].effect_name = spell => op'.n = 1]_vars

\* C40: cursor bounds: in every reachable state in which the sequencer is
\* active and the turn order is non-empty, 0 <= current_turn_index < length of
\* the turn order, after any sequence of next_turn, skip_dead_creatures and
\* advance_turn calls, so get_current_creature never indexes outside the order.
C40_CursorInBounds ==
  (combat_active /\ turn_order # <<>>)
  => /\ 0 <= current_turn_index
     /\ current_turn_index < Len(turn_order)

\* next_turn moved the cursor from the last of three entries back to the
\* first; round 2 began and the encounter goes on.
C40_Witness ==
  /\ op.name = "next_turn" /\ combat_active
  /\ Len(turn_order) = 3 /\ op.cursor = <<2, 0>>
  /\ current_turn_index = 0 /\ round_number = 2

====
